---------------------------- MODULE Spec2Model ----------------------------
(***************************************************************************)
(* A model of the PII detection and confidence-fusion pipeline of          *)
(* Hack-Bell (secure-redact): fusion / deduplication (fusionEngine.ts),    *)
(* the two detection pipelines (pipeline.ts, enhancedPipeline.ts), the     *)
(* retry helper, the worker pool and the detectors.                        *)
(*                                                                         *)
(* Numbers.  Confidences are fixed-point: ONE (100000) stands for 1.0, so  *)
(* 0.95 is 95000 and the 0.01 tolerance of the sort comparator is 1000.    *)
(* Intersection-over-union is a fraction <<num, den>>; it is compared to   *)
(* a threshold <<n, d>> by cross-multiplication, which is exact.           *)
(***************************************************************************)
EXTENDS Integers, Sequences, FiniteSets, TLC

VARIABLES
    \* ---- deduplication as a function (fusionEngine.ts, enhancedPipeline.ts)
    entities,       \* the list handed to deduplicateEntities
    iouThreshold,   \* its iouThreshold argument, a fraction <<n, d>>
    shuffled,       \* a permutation of entities
    kept,           \* deduplicateEntities(entities).deduplicated
    keptShuffled,   \* deduplicateEntities(shuffled).deduplicated
    keptFinal,      \* deduplicateEntitiesFinal(entities)
    dpc,            \* "input" | "shuffled" | "done" | "off"
    \* ---- the data path of the two pipelines (pipeline.ts, enhancedPipeline.ts)
    pipeline,            \* "legacy" (runDetectionPipeline) | "enhanced" | "off"
    confidenceThreshold, \* caller's threshold, fixed-point
    requiredFields,      \* set of PII types the caller keeps visible
    geminiApiKey,        \* "" or a key
    enableGemini,        \* EnhancedPipelineConfig.enableGemini
    documentType,        \* classification.primaryType in the advanced worker
    detected,            \* what the local detectors find: [regex, spatial, nlp]
    fusedEntities,       \* fusionResult.entities in the advanced worker
    advancedEntities,    \* enhanced: advancedEntities; legacy: layer 1 ++ NLP
    geminiEntities,      \* geminiEntities of either pipeline
    result,              \* the list the pipeline returns
    fpc,                 \* position in the pipeline, "off" when not modelled
    \* ---- withRetry (pipeline.ts)
    rPc,            \* "start" | "awaitFn" | "awaitTimer" | "returned" | "thrown" | "off"
    fnName,         \* which call withRetry wraps
    maxRetries,     \* its maxRetries argument
    attempt,        \* the loop counter
    delay,          \* the back-off delay in ms, a fraction <<n, d>>
    calls,          \* how many times fn has been called
    waits,          \* the delays slept so far
    lastError,      \* message of the last error fn threw
    retVal,         \* the value withRetry returned
    aiResponds,     \* whether pending AI calls ever settle
    \* ---- control flow of the pipelines, workers and timers
    ppc,            \* position of the pipeline's async function
    worker,         \* the worker: "none" | "running" | "terminated"
    workerMsg,      \* message the worker has posted and not yet delivered
    callbackSet,    \* whether the pool holds the pending callback
    timer,          \* the worker time-out: "none" | "armed" | "cleared" | "fired"
    workerPromise,  \* "none" | "pending" | "resolved" | "rejected"
    fuseRan,        \* whether FusionEngine.fuse has run
    aiSettled,      \* the AI strategies that have returned or failed
    \* ---- a WorkerPool serving several calls (WorkerPool.ts)
    advancedCalls,      \* per runAdvancedDetection call: promise, timer, settledBy
    advancedCallbacks,  \* keys of the advancedCallbacks map, in insertion order
    advancedInbox,      \* requests posted to the advanced worker, not yet handled
    advancedOutbox,     \* messages the advanced worker posted, not yet delivered
    ocrCalls,           \* per runOCR call: promise, progress messages, final posted
    ocrCallbacks,       \* keys of the ocrCallbacks map, in insertion order
    ocrOutbox,          \* messages the OCR worker posted, not yet delivered
    progressCallback,   \* whether setProgressCallback has registered a callback
    \* ---- the detectors called one at a time
    ocrText,        \* fullText, as the sequence of its blank-separated tokens
    ocrWords,       \* the OCR words
    detector,       \* the detector called last
    inputSize,      \* how many items the lists handed to it held
    geminiItems,    \* the items of the JSON array the AI answered with
    output          \* what it returned, or that it threw

dedupVars == <<entities, iouThreshold, shuffled, kept, keptShuffled, keptFinal, dpc>>

fusionVars == <<pipeline, confidenceThreshold, requiredFields, geminiApiKey,
                enableGemini, documentType, detected, fusedEntities,
                advancedEntities, geminiEntities, result, fpc>>

retryVars == <<rPc, fnName, maxRetries, attempt, delay, calls, waits, lastError,
               retVal, aiResponds>>

poolVars == <<advancedCalls, advancedCallbacks, advancedInbox, advancedOutbox,
              ocrCalls, ocrCallbacks, ocrOutbox, progressCallback>>

pipeVars == <<ppc, worker, workerMsg, callbackSet, timer, workerPromise, fuseRan,
              aiSettled, poolVars>>

detectVars == <<ocrText, ocrWords, detector, inputSize, geminiItems, output>>

vars == <<dedupVars, fusionVars, retryVars, pipeVars, detectVars>>

\* A specification exercises one part of the program; the variables of the
\* other parts keep these values.
DedupIdle ==
    /\ entities = <<>> /\ iouThreshold = <<1, 2>> /\ shuffled = <<>>
    /\ kept = <<>> /\ keptShuffled = <<>> /\ keptFinal = <<>> /\ dpc = "off"

FusionIdle ==
    /\ pipeline = "off" /\ confidenceThreshold = 0 /\ requiredFields = {}
    /\ geminiApiKey = "" /\ enableGemini = FALSE /\ documentType = "generic"
    /\ detected = [regex |-> <<>>, spatial |-> <<>>, nlp |-> <<>>]
    /\ fusedEntities = <<>> /\ advancedEntities = <<>> /\ geminiEntities = <<>>
    /\ result = <<>> /\ fpc = "off"

\* lastError before any error: let lastError: Error | undefined
NoError == {"<no error>"}

RetryIdle ==
    /\ rPc = "off" /\ fnName = "none" /\ maxRetries = 0 /\ attempt = 0
    /\ delay = <<0, 1>> /\ calls = 0 /\ waits = <<>> /\ lastError = NoError
    /\ retVal = "none" /\ aiResponds = TRUE

PipeIdle ==
    /\ ppc = "off" /\ worker = "none" /\ workerMsg = "none" /\ callbackSet = FALSE
    /\ timer = "none" /\ workerPromise = "none" /\ fuseRan = FALSE /\ aiSettled = {}
    /\ advancedCalls = <<>> /\ advancedCallbacks = <<>> /\ advancedInbox = <<>>
    /\ advancedOutbox = <<>> /\ ocrCalls = <<>> /\ ocrCallbacks = <<>>
    /\ ocrOutbox = <<>> /\ progressCallback = FALSE

DetectIdle ==
    /\ ocrText = <<>> /\ ocrWords = <<>> /\ detector = "none" /\ inputSize = 0
    /\ geminiItems = <<>>
    /\ output = [threw |-> FALSE, value |-> <<>>]

-----------------------------------------------------------------------------
(* Bounds of the model *)

MaxList == 3

-----------------------------------------------------------------------------
(* Arithmetic helpers *)

ONE == 100000

Min(a, b) == IF a <= b THEN a ELSE b
Max(a, b) == IF a >= b THEN a ELSE b
Abs(a) == IF a < 0 THEN -a ELSE a

\* Math.min(...xs) and Math.max(...xs) over a non-empty collection
MinOf(S) == CHOOSE x \in S : \A y \in S : x <= y
MaxOf(S) == CHOOSE x \in S : \A y \in S : x >= y

Map(s, F(_)) == [i \in 1..Len(s) |-> F(s[i])]

Range(s) == {s[i] : i \in 1..Len(s)}

-----------------------------------------------------------------------------
(* Entities and bounding boxes (types.ts: DetectedEntity, BoundingBox) *)

BBox(x, y, w, h, p) == [x |-> x, y |-> y, w |-> w, h |-> h, pageIndex |-> p]

Entity(id, type, value, confidence, bbox, layer) ==
    [id |-> id, type |-> type, value |-> value, confidence |-> confidence,
     bbox |-> bbox, masked |-> TRUE, layer |-> layer]

-----------------------------------------------------------------------------
(* fusionEngine.ts: confidence normalisation *)

\* A faulty normalisation: the ML band and the default have no lower end.
normalizeConfidenceNoFloor(entity) ==
    LET c == entity.confidence
        base == CASE entity.layer = 0 -> ONE
                  [] entity.layer = 1 -> Max(c, 95000)
                  [] entity.layer = 2 -> Min(Max(c, 60000), 90000)
                  [] entity.layer = 3 -> Min(Max(c, 95000), 99000)
                  [] entity.layer = 4 -> Min(c, 95000)
                  [] OTHER -> c
    IN [entity EXCEPT !.confidence = base]

\* A faulty normalisation: the NLP band has no upper end.
normalizeConfidenceUnclamped(entity) ==
    LET c == entity.confidence
        base == CASE entity.layer = 0 -> ONE
                  [] entity.layer = 1 -> Max(c, 95000)
                  [] entity.layer = 2 -> Max(c, 60000)
                  [] entity.layer = 3 -> Min(Max(c, 95000), 99000)
                  [] entity.layer = 4 -> Min(Max(c, 50000), 95000)
                  [] OTHER -> Max(c, 50000)
    IN [entity EXCEPT !.confidence = base]

normalizeConfidenceByLayer(entity) ==
    LET c == entity.confidence
        base == CASE entity.layer = 0 -> ONE
                  [] entity.layer = 1 -> Max(c, 95000)
                  [] entity.layer = 2 -> Min(Max(c, 60000), 90000)
                  [] entity.layer = 3 -> Min(Max(c, 95000), 99000)
                  [] entity.layer = 4 -> Min(Max(c, 50000), 95000)
                  [] OTHER -> Max(c, 50000)
    IN [entity EXCEPT !.confidence = base]

-----------------------------------------------------------------------------
(* fusionEngine.ts / enhancedPipeline.ts: intersection over union *)

\* The fraction intersection / union, or 0 (<<0, 1>>) for boxes on different
\* pages and for an empty union.
calculateIoU(a, b) ==
    IF a.pageIndex # b.pageIndex THEN <<0, 1>>
    ELSE LET xOverlap == Max(0, Min(a.x + a.w, b.x + b.w) - Max(a.x, b.x))
             yOverlap == Max(0, Min(a.y + a.h, b.y + b.h) - Max(a.y, b.y))
             intersection == xOverlap * yOverlap
             areaA == a.w * a.h
             areaB == b.w * b.h
             union == areaA + areaB - intersection
         IN IF union > 0 THEN <<intersection, union>> ELSE <<0, 1>>

\* f > t for fractions with positive denominators.
FracGT(f, t) == f[1] * t[2] > t[1] * f[2]

-----------------------------------------------------------------------------
(* fusionEngine.ts: deduplicateEntities (non-maximum suppression) *)

\* The sort comparator: layer DESC, confidence DESC (beyond 0.01), value length DESC.
compareFusion(a, b) ==
    IF a.layer # b.layer THEN b.layer - a.layer
    ELSE IF Abs(a.confidence - b.confidence) > 1000
         THEN b.confidence - a.confidence
         ELSE Len(b.value) - Len(a.value)

\* Array.prototype.sort, which is stable: each element is inserted after the
\* elements it does not precede.  Precedes(a, b) is compareFn(a, b) < 0 for
\* the comparator named cmp: "fusion" is the one of fusionEngine.ts; "final"
\* the one of deduplicateEntitiesFinal in enhancedPipeline.ts (layer DESC,
\* confidence DESC); "legacy" the one of deduplicateEntities in pipeline.ts
\* (confidence DESC).
StableSort(list, cmp) ==
    LET Precedes(a, b) ==
            LET compareFinal == IF a.layer # b.layer THEN b.layer - a.layer
                                ELSE b.confidence - a.confidence
                compareLegacy == b.confidence - a.confidence
            IN CASE cmp = "fusion" -> compareFusion(a, b) < 0
                 [] cmp = "final"  -> compareFinal < 0
                 [] cmp = "legacy" -> compareLegacy < 0
        RECURSIVE InsertSorted(_, _)
        InsertSorted(x, s) ==
            IF Len(s) = 0 THEN <<x>>
            ELSE IF Precedes(x, s[Len(s)])
                 THEN Append(InsertSorted(x, SubSeq(s, 1, Len(s) - 1)), s[Len(s)])
                 ELSE Append(s, x)
        RECURSIVE Sorted(_)
        Sorted(s) ==
            IF Len(s) = 0 THEN <<>>
            ELSE InsertSorted(s[Len(s)], Sorted(SubSeq(s, 1, Len(s) - 1)))
    IN Sorted(list)

\* A faulty walk: the entity is compared with the most recently kept entity only.
RECURSIVE NmsWalkLastOnly(_, _, _)
NmsWalkLastOnly(sorted, keptSoFar, t) ==
    IF Len(sorted) = 0 THEN keptSoFar
    ELSE LET entity == Head(sorted)
             shouldKeep == Len(keptSoFar) = 0 \/
                 ~FracGT(calculateIoU(entity.bbox, keptSoFar[Len(keptSoFar)].bbox), t)
         IN NmsWalkLastOnly(Tail(sorted),
                    IF shouldKeep THEN Append(keptSoFar, entity) ELSE keptSoFar, t)

\* The walk over the sorted list: an entity is kept unless its IoU with an
\* entity kept before it exceeds the threshold.
RECURSIVE NmsWalk(_, _, _)
NmsWalk(sorted, keptSoFar, t) ==
    IF Len(sorted) = 0 THEN keptSoFar
    ELSE LET entity == Head(sorted)
             shouldKeep == \A i \in 1..Len(keptSoFar) :
                              ~FracGT(calculateIoU(entity.bbox, keptSoFar[i].bbox), t)
         IN NmsWalk(Tail(sorted),
                    IF shouldKeep THEN Append(keptSoFar, entity) ELSE keptSoFar, t)

\* A faulty deduplication: the list is walked in input order, unsorted.
deduplicateEntitiesUnsorted(ents, t) ==
    LET keptList == NmsWalk(ents, <<>>, t)
    IN [deduplicated |-> keptList, removedCount |-> Len(ents) - Len(keptList)]

deduplicateEntities(ents, t) ==
    LET sorted == StableSort(ents, "fusion")
        keptList == NmsWalk(sorted, <<>>, t)
    IN [deduplicated |-> keptList, removedCount |-> Len(ents) - Len(keptList)]

-----------------------------------------------------------------------------
(* enhancedPipeline.ts: deduplicateEntitiesFinal (fixed threshold 0.5) *)

deduplicateEntitiesFinal(ents) ==
    NmsWalk(StableSort(ents, "final"), <<>>, <<1, 2>>)

-----------------------------------------------------------------------------
(* Deduplication as a function: the inputs are drawn in Init, Shuffle       *)
(* permutes the list and Deduplicate applies the two functions.            *)

\* The input: a list of at most MaxList entities of the pool, an entity's
\* id being its position, and a threshold of 0.5 or 1/3.  In the pool the
\* confidences 0.70, 0.705 and 0.708 lie within the comparator's 0.01
\* tolerance of each other; all others are further apart, so the comparator
\* is a consistent (transitive) weak order on every list drawn from the pool
\* and a stable sort has exactly one result.
DedupInit ==
    /\ entities \in
         LET boxA == BBox(0, 0, 2, 1, 0)
             boxB == BBox(0, 0, 1, 1, 0)
             boxC == BBox(0, 0, 3, 1, 0)
             boxD == BBox(0, 0, 2, 1, 1)
             DedupPool == { Entity(0, "NAME", "ab",   70000, boxA, 2),
                            Entity(0, "NAME", "cd",   70000, boxC, 2),
                            Entity(0, "NAME", "abcd", 95000, boxB, 3),
                            Entity(0, "NAME", "abc",  70500, boxA, 2),
                            Entity(0, "NAME", "a",    70800, boxA, 2),
                            Entity(0, "PAN",  "ab",   90000, boxD, 2),
                            Entity(0, "PAN",  "abcd", 95000, boxC, 4),
                            Entity(0, "PAN",  "abcd", ONE,   boxA, 1) }
         IN UNION { { [i \in 1..n |-> [f[i] EXCEPT !.id = i]] : f \in [1..n -> DedupPool] }
                    : n \in 0..MaxList }
    /\ iouThreshold \in { <<1, 2>>, <<1, 3>> }
    /\ shuffled = entities
    /\ kept = <<>>
    /\ keptShuffled = <<>>
    /\ keptFinal = <<>>
    /\ dpc = "input"
    /\ FusionIdle /\ RetryIdle /\ PipeIdle /\ DetectIdle

Shuffle ==
    /\ dpc = "input"
    /\ LET n == Len(entities)
       IN \E p \in { q \in [1..n -> 1..n] : \A i, j \in 1..n : q[i] = q[j] => i = j } :
              shuffled' = [i \in 1..n |-> entities[p[i]]]
    /\ dpc' = "shuffled"
    /\ UNCHANGED <<entities, iouThreshold, kept, keptShuffled, keptFinal>>
    /\ UNCHANGED <<fusionVars, retryVars, pipeVars, detectVars>>

Deduplicate ==
    /\ dpc = "shuffled"
    /\ kept' = deduplicateEntities(entities, iouThreshold).deduplicated
    /\ keptShuffled' = deduplicateEntities(shuffled, iouThreshold).deduplicated
    /\ keptFinal' = deduplicateEntitiesFinal(entities)
    /\ dpc' = "done"
    /\ UNCHANGED <<entities, iouThreshold, shuffled>>
    /\ UNCHANGED <<fusionVars, retryVars, pipeVars, detectVars>>

SpecDedup == DedupInit /\ [][Shuffle \/ Deduplicate]_vars

-----------------------------------------------------------------------------
(* Claims about deduplication, checked under SpecDedup *)

\* Pairs of distinct positions of a list.
Pairs(s) == { <<i, j>> \in (1..Len(s)) \X (1..Len(s)) : i # j }

SamePage(a, b) == a.bbox.pageIndex = b.bbox.pageIndex

\* C1 (as stated): in the list returned by deduplicateEntities and in the one
\* returned by the final merge (deduplicateEntitiesFinal, threshold 0.5), every
\* two distinct kept entities on the same page have IoU strictly below the
\* threshold.
C1_IoUStrictlyBelow ==
    dpc = "done" =>
        /\ \A q \in Pairs(kept) : SamePage(kept[q[1]], kept[q[2]]) =>
               FracGT(iouThreshold, calculateIoU(kept[q[1]].bbox, kept[q[2]].bbox))
        /\ \A q \in Pairs(keptFinal) : SamePage(keptFinal[q[1]], keptFinal[q[2]]) =>
               FracGT(<<1, 2>>, calculateIoU(keptFinal[q[1]].bbox, keptFinal[q[2]].bbox))

\* C1 (amended): every two distinct kept entities on the same page have IoU at
\* most the threshold (an overlap exactly at the threshold is not suppressed).
C1_IoUAtMost ==
    dpc = "done" =>
        /\ \A q \in Pairs(kept) : SamePage(kept[q[1]], kept[q[2]]) =>
               ~FracGT(calculateIoU(kept[q[1]].bbox, kept[q[2]].bbox), iouThreshold)
        /\ \A q \in Pairs(keptFinal) : SamePage(keptFinal[q[1]], keptFinal[q[2]]) =>
               ~FracGT(calculateIoU(keptFinal[q[1]].bbox, keptFinal[q[2]].bbox), <<1, 2>>)

\* C1 witness: a run in which suppression happened and two kept entities of
\* one page overlap exactly at the threshold.
C1_Witness ==
    /\ dpc = "done"
    /\ Len(kept) < Len(entities)
    /\ Len(keptFinal) < Len(entities)
    /\ \E q \in Pairs(kept) :
          /\ SamePage(kept[q[1]], kept[q[2]])
          /\ calculateIoU(kept[q[1]].bbox, kept[q[2]].bbox) = iouThreshold

\* No two entities of the list compare equal under the sort comparator.
NoTies(s) == \A q \in Pairs(s) : compareFusion(s[q[1]], s[q[2]]) # 0

\* The comparator orders the list consistently (it is transitive on it).
Consistent(s) ==
    \A i, j, k \in 1..Len(s) :
        (compareFusion(s[i], s[j]) < 0 /\ compareFusion(s[j], s[k]) < 0)
            => compareFusion(s[i], s[k]) < 0

\* C2 (as stated): deduplicating any permutation of the list keeps the same
\* set of entities.
C2_OrderIndependent ==
    dpc = "done" => Range(kept) = Range(keptShuffled)

\* C2 (amended): the kept set is the same for every permutation of a list on
\* which the sort comparator is consistent and leaves no two entities tied
\* (tied entities are kept in input order by the stable sort).
C2_OrderIndependentNoTies ==
    (dpc = "done" /\ NoTies(entities) /\ Consistent(entities))
        => Range(kept) = Range(keptShuffled)

\* C2 witness: an untied list of three entities, really permuted, from which
\* deduplication removed something.
C2_Witness ==
    /\ dpc = "done"
    /\ Len(entities) >= 3
    /\ NoTies(entities) /\ Consistent(entities)
    /\ shuffled # entities
    /\ Len(kept) < Len(entities)

-----------------------------------------------------------------------------
(* normalizeConfidenceByLayer as a function: Init draws one entity of any  *)
(* layer and confidence, NormalizeConfidence applies the function.         *)

NormalizeInit ==
    /\ \E layer \in 0..5,
          c \in {0, 30000, 50000, 60000, 75000, 90000, 93000, 95000, 97000, 99000, ONE} :
         entities = << Entity(1, "NAME", "ab", c, BBox(0, 0, 2, 1, 0), layer) >>
    /\ iouThreshold = <<1, 2>>
    /\ shuffled = entities
    /\ kept = <<>>
    /\ keptShuffled = <<>>
    /\ keptFinal = <<>>
    /\ dpc = "input"
    /\ FusionIdle /\ RetryIdle /\ PipeIdle /\ DetectIdle

\* entities.map(normalizeConfidenceByLayer), the first step of fuse
NormalizeConfidence ==
    /\ dpc = "input"
    /\ kept' = [i \in 1..Len(entities) |-> normalizeConfidenceByLayer(entities[i])]
    /\ dpc' = "normalized"
    /\ UNCHANGED <<entities, iouThreshold, shuffled, keptShuffled, keptFinal>>
    /\ UNCHANGED <<fusionVars, retryVars, pipeVars, detectVars>>

SpecNormalize == NormalizeInit /\ [][NormalizeConfidence]_vars

RegexOverNlp ==
    { q \in Pairs(entities) :
        /\ entities[q[1]].layer \in {0, 1}
        /\ entities[q[2]].layer = 2
        /\ FracGT(calculateIoU(entities[q[1]].bbox, entities[q[2]].bbox), iouThreshold) }

\* C11: when a regex entity (layer 0 or 1) and an NLP-heuristic entity
\* (layer 2) of the input overlap with IoU above the threshold,
\* deduplicateEntities removes the NLP entity, and it keeps the regex entity
\* unless an entity of another source suppresses it.
C11_RegexBeatsNlp ==
    dpc = "done" =>
        \A q \in RegexOverNlp :
            /\ entities[q[2]] \notin Range(kept)
            /\ \/ entities[q[1]] \in Range(kept)
               \/ \E k \in 1..Len(kept) :
                     /\ kept[k].layer \notin {0, 1, 2}
                     /\ FracGT(calculateIoU(entities[q[1]].bbox, kept[k].bbox), iouThreshold)

\* C11 witness: the input is one regex entity and one NLP entity overlapping
\* above the threshold, and the NLP entity alone is kept.
C11_Witness ==
    /\ dpc = "done"
    /\ Len(entities) = 2
    /\ RegexOverNlp # {}
    /\ \A q \in RegexOverNlp :
          entities[q[2]] \in Range(kept) /\ entities[q[1]] \notin Range(kept)

\* k ranks below e in the order layer descending, then confidence
\* descending, then value length descending.
RanksBelow(k, e) ==
    \/ k.layer < e.layer
    \/ k.layer = e.layer /\ k.confidence < e.confidence
    \/ k.layer = e.layer /\ k.confidence = e.confidence /\ Len(k.value) < Len(e.value)

\* The entities of the input that deduplication discarded
Discarded == { i \in 1..Len(entities) : entities[i] \notin Range(kept) }

\* A kept entity of the same page that overlaps e above the threshold
Suppressors(e) ==
    { k \in 1..Len(kept) :
        /\ SamePage(kept[k], e)
        /\ FracGT(calculateIoU(e.bbox, kept[k].bbox), iouThreshold) }

\* C20: whenever deduplicateEntities discards an entity e, some kept entity k
\* of the same page has IoU(e.bbox, k.bbox) above the threshold and does not
\* rank below e in the order (layer, confidence, value length, each
\* descending); a layer-2 entity at 0.75 on box [10,10,50,20] and a layer-3
\* entity at 0.98 on box [10,10,52,20] leave the layer-3 entity only.
C20_DiscardedHasBetterKept ==
    /\ dpc = "done" =>
          \A i \in Discarded :
              \E k \in Suppressors(entities[i]) : ~RanksBelow(kept[k], entities[i])
    /\ LET a == Entity(1, "NAME", "John Doe", 75000, BBox(10, 10, 50, 20, 0), 2)
           b == Entity(2, "NAME", "John Doe", 98000, BBox(10, 10, 52, 20, 0), 3)
       IN /\ deduplicateEntities(<<a, b>>, <<1, 2>>).deduplicated = <<b>>
          /\ deduplicateEntities(<<b, a>>, <<1, 2>>).deduplicated = <<b>>

\* C20 witness: of two layer-2 entities on one box the one at confidence
\* 0.708 was discarded and the one at 0.705, which has the longer value, kept.
C20_Witness ==
    /\ dpc = "done"
    /\ Len(entities) = 2
    /\ entities[1].confidence = 70800 /\ entities[2].confidence = 70500
    /\ entities[1].layer = entities[2].layer
    /\ entities[1].bbox = entities[2].bbox
    /\ Discarded = {1}
    /\ kept = <<entities[2]>>
    /\ RanksBelow(kept[1], entities[1])

-----------------------------------------------------------------------------
(* Deduplication of lists that span two pages.  The three layer-2 names    *)
(* have confidences 0.705, 0.712 and 0.718 and values of 3, 2 and 1        *)
(* letters: within the 0.01 tolerance the longer value sorts first, beyond *)
(* it the higher confidence, so the comparator orders them in a cycle.     *)

PagesInit ==
    /\ entities \in UNION { { [i \in 1..n |-> [f[i] EXCEPT !.id = i]] :
                               f \in [1..n -> { Entity(0, "NAME", "abc", 70500, BBox(0, 0, 2, 1, 0), 2),
                                                Entity(0, "NAME", "ab", 71200, BBox(0, 0, 2, 1, 1), 2),
                                                Entity(0, "NAME", "a", 71800, BBox(0, 0, 2, 1, 0), 2),
                                                Entity(0, "NAME", "abcd", 95000, BBox(0, 0, 3, 1, 1), 3) }] }
                            : n \in 0..MaxList }
    /\ iouThreshold \in { <<1, 2>>, <<1, 3>> }
    /\ shuffled = entities
    /\ kept = <<>>
    /\ keptShuffled = <<>>
    /\ keptFinal = <<>>
    /\ dpc = "input"
    /\ FusionIdle /\ RetryIdle /\ PipeIdle /\ DetectIdle

SpecPages == PagesInit /\ [][Shuffle \/ Deduplicate]_vars

\* The entities of the input that lie on page p, in input order
OnPage(p) == SelectSeq(entities, LAMBDA e : e.bbox.pageIndex = p)

\* C22: the IoU of two boxes of different pages is 0, and the set
\* deduplicateEntities keeps of a list spanning several pages is the union of
\* the sets it keeps of each page's entities alone.
C22_PagesIndependent ==
    /\ \A q \in Pairs(entities) :
          ~SamePage(entities[q[1]], entities[q[2]]) =>
              calculateIoU(entities[q[1]].bbox, entities[q[2]].bbox)[1] = 0
    /\ dpc = "done" =>
          Range(kept) =
              UNION { Range(deduplicateEntities(OnPage(p), iouThreshold).deduplicated) :
                        p \in { entities[i].bbox.pageIndex : i \in 1..Len(entities) } }

\* C22 witness: the input holds "abc" (0.705) and "a" (0.718) on one box of
\* page 0 and "ab" (0.712) on page 1.  Of page 0 alone "a" is kept; with the
\* entity of page 1 in the list "abc" is kept and "a" discarded.
C22_Witness ==
    /\ dpc = "done"
    /\ Len(entities) = 3
    /\ entities[1].value = "abc" /\ entities[2].value = "ab" /\ entities[3].value = "a"
    /\ deduplicateEntities(OnPage(0), iouThreshold).deduplicated = <<entities[3]>>
    /\ kept = <<entities[1], entities[2]>>

-----------------------------------------------------------------------------
(* The fusion engine (fusionEngine.ts: FusionEngine)                       *)

\* FusionEngine.generateStats
generateStats(ents, removedCount) ==
    [ total |-> Len(ents),
      byLayer |-> [l \in {ents[i].layer : i \in 1..Len(ents)} |->
                      Cardinality({i \in 1..Len(ents) : ents[i].layer = l})],
      byConfidenceRange |->
          [ low    |-> Cardinality({i \in 1..Len(ents) : ents[i].confidence < 70000}),
            medium |-> Cardinality({i \in 1..Len(ents) :
                          ents[i].confidence >= 70000 /\ ents[i].confidence < 90000}),
            high   |-> Cardinality({i \in 1..Len(ents) : ents[i].confidence >= 90000}) ],
      deduplicated |-> removedCount ]

\* A faulty fusion: the confidence filter is left out.
fuseUnfiltered(config, regexEntities, spatialEntities, nlpEntities, mlEntities) ==
    LET combined == Map(regexEntities, normalizeConfidenceByLayer)
                    \o Map(spatialEntities, normalizeConfidenceByLayer)
                    \o Map(nlpEntities, normalizeConfidenceByLayer)
                    \o Map(mlEntities, normalizeConfidenceByLayer)
        dd == deduplicateEntities(combined, config.deduplicationOverlapThreshold)
    IN [entities |-> dd.deduplicated,
        stats |-> generateStats(dd.deduplicated, dd.removedCount)]

\* FusionEngine.fuse; config is the FusionConfig of the engine.
fuse(config, regexEntities, spatialEntities, nlpEntities, mlEntities) ==
    LET combined == Map(regexEntities, normalizeConfidenceByLayer)
                    \o Map(spatialEntities, normalizeConfidenceByLayer)
                    \o Map(nlpEntities, normalizeConfidenceByLayer)
                    \o Map(mlEntities, normalizeConfidenceByLayer)
        dd == deduplicateEntities(combined, config.deduplicationOverlapThreshold)
        filtered == SelectSeq(dd.deduplicated,
                        LAMBDA e : e.confidence >= config.confidenceThreshold)
    IN [entities |-> filtered, stats |-> generateStats(filtered, dd.removedCount)]

\* FusionEngine.getConfidenceBoost, in hundredths (1.2 is 120)
getConfidenceBoost(config) ==
    CASE config.documentType = "invoice" -> 120
      [] config.documentType = "bank_statement" -> 130
      [] config.documentType \in {"id_card_aadhaar", "id_card_pan"} -> 125
      [] config.documentType = "tax_return" -> 115
      [] OTHER -> 100

\* FusionEngine.applyDocumentTypeBoost
applyDocumentTypeBoost(config, ents) ==
    LET boost == getConfidenceBoost(config)
    IN IF boost = 100 THEN ents
       ELSE [i \in 1..Len(ents) |->
               [ents[i] EXCEPT !.confidence = Min((ents[i].confidence * boost) \div 100, ONE)]]

\* documentRouter: getRulesetForDocType
\* confidenceBoost is in hundredths (1.2 is 120).
getRulesetForDocType(docType) ==
    CASE docType \in {"invoice", "bank_statement", "tax_return"} ->
            [prioritizeSpatialContext |-> TRUE, enableTableDetection |-> TRUE,
             aggressiveRegex |-> TRUE, skipParagraphNER |-> TRUE,
             confidenceBoost |-> CASE docType = "invoice" -> 120
                                   [] docType = "bank_statement" -> 130
                                   [] OTHER -> 115]
      [] docType \in {"id_card_aadhaar", "id_card_pan"} ->
            [prioritizeSpatialContext |-> TRUE, enableTableDetection |-> FALSE,
             aggressiveRegex |-> TRUE, skipParagraphNER |-> TRUE,
             confidenceBoost |-> 125]
      [] OTHER ->
            [prioritizeSpatialContext |-> FALSE, enableTableDetection |-> FALSE,
             aggressiveRegex |-> FALSE, skipParagraphNER |-> FALSE,
             confidenceBoost |-> 100]

-----------------------------------------------------------------------------
(* Gemini word-ID detection (geminiWordId part of fusionEngine.ts)          *)

Word(text, x, y, w, h) == [text |-> text, bbox |-> BBox(x, y, w, h, 0)]

\* mapCategory on the category strings the model lets the AI return:
\* lower-cased and normalised, then looked up in CATEGORY_MAP.
mapCategory(category) ==
    CASE category \in {"NAME", "Person"} -> "NAME"
      [] category \in {"PHONE_NUMBER", "phone"} -> "PHONE"
      [] category \in {"PAN", "pan number"} -> "PAN"
      [] OTHER -> "SENSITIVE"

\* A faulty mapping: one entity without words voids the whole answer.
calculateRedactionMasksAllOrNone(tesseractData, geminiOutput) ==
    LET resolves(entity) == \E i \in 1..Len(tesseractData) : (i - 1) \in entity.wordIds
        box(entity) ==
            LET matched == { i \in 1..Len(tesseractData) : (i - 1) \in entity.wordIds }
            IN [ startX |-> MinOf({tesseractData[i].bbox.x : i \in matched}),
                 startY |-> MinOf({tesseractData[i].bbox.y : i \in matched}),
                 endX |-> MaxOf({tesseractData[i].bbox.x + tesseractData[i].bbox.w
                                    : i \in matched}),
                 endY |-> MaxOf({tesseractData[i].bbox.y + tesseractData[i].bbox.h
                                    : i \in matched}) ]
    IN IF \E k \in 1..Len(geminiOutput) : ~resolves(geminiOutput[k]) THEN <<>>
       ELSE [k \in 1..Len(geminiOutput) |->
                [ id |-> k, type |-> mapCategory(geminiOutput[k].type),
                  textValue |-> geminiOutput[k].value,
                  coordinates |-> box(geminiOutput[k]),
                  selectedForMasking |-> TRUE ]]

\* calculateRedactionMasks.  MaskOf is one element of its map and NullMask
\* the null it filters out; word ids are array indices (0-based), the mask
\* id stands for crypto.randomUUID().
calculateRedactionMasks(tesseractData, geminiOutput) ==
    LET NullMask == [null |-> TRUE]
        MaskOf(entity, k) ==
            LET matched == { i \in 1..Len(tesseractData) : (i - 1) \in entity.wordIds }
            IN IF matched = {} THEN NullMask
               ELSE [ id |-> k,
                      type |-> mapCategory(entity.type),
                      textValue |-> entity.value,
                      coordinates |->
                        [ startX |-> MinOf({tesseractData[i].bbox.x : i \in matched}),
                          startY |-> MinOf({tesseractData[i].bbox.y : i \in matched}),
                          endX |-> MaxOf({tesseractData[i].bbox.x + tesseractData[i].bbox.w
                                             : i \in matched}),
                          endY |-> MaxOf({tesseractData[i].bbox.y + tesseractData[i].bbox.h
                                             : i \in matched}) ],
                      selectedForMasking |-> TRUE ]
    IN IF Len(geminiOutput) = 0 THEN <<>>
       ELSE SelectSeq([k \in 1..Len(geminiOutput) |-> MaskOf(geminiOutput[k], k)],
                      LAMBDA m : m # NullMask)

\* callGeminiWithTokens after the answer is parsed: the filter that keeps the
\* items of the right structure.  An item is a record of the fields the AI
\* gave it; wordIds is the set of its numbers.
callGeminiWithTokens(items) ==
    SelectSeq(items, LAMBDA item :
        /\ "type" \in DOMAIN item
        /\ "value" \in DOMAIN item
        /\ "wordIds" \in DOMAIN item
        /\ item.wordIds # {})

MASK_PADDING == 4

masksToEntities(masks, pageIndex) ==
    [k \in 1..Len(masks) |->
        [ id |-> <<"wid", masks[k].id>>,
          type |-> masks[k].type,
          value |-> masks[k].textValue,
          confidence |-> 95000,
          bbox |-> BBox(Max(0, masks[k].coordinates.startX - MASK_PADDING),
                        Max(0, masks[k].coordinates.startY - MASK_PADDING),
                        (masks[k].coordinates.endX - masks[k].coordinates.startX) + MASK_PADDING * 2,
                        (masks[k].coordinates.endY - masks[k].coordinates.startY) + MASK_PADDING * 2,
                        pageIndex),
          masked |-> masks[k].selectedForMasking,
          layer |-> 4 ]]

\* runWordIdPipeline; piiEntities is what runGeminiWordIdDetection resolves to
\* (the validated items of the AI's answer).
runWordIdPipeline(words, apiKey, pageIndex, piiEntities) ==
    IF apiKey = "" \/ Len(words) = 0 THEN <<>>
    ELSE IF Len(piiEntities) = 0 THEN <<>>
    ELSE masksToEntities(calculateRedactionMasks(words, piiEntities), pageIndex)

\* matchingEngine: zonesToEntities.  A redaction zone carries the type, text,
\* confidence and box of the entity made from it; the entity is masked and
\* comes from the external AI layer.
zonesToEntities(zones) ==
    [k \in 1..Len(zones) |->
        [ id |-> <<"zone", k>>, type |-> zones[k].type, value |-> zones[k].text,
          confidence |-> zones[k].confidence, bbox |-> zones[k].bbox,
          masked |-> TRUE, layer |-> 4 ]]

-----------------------------------------------------------------------------
(* Final steps of the pipelines                                            *)

\* boxesOverlap of pipeline.ts: overlap area over the smaller box's area
boxesOverlap(a, b, threshold) ==
    LET overlapX == Max(0, Min(a.x + a.w, b.x + b.w) - Max(a.x, b.x))
        overlapY == Max(0, Min(a.y + a.h, b.y + b.h) - Max(a.y, b.y))
        overlapArea == overlapX * overlapY
        minArea == Min(a.w * a.h, b.w * b.h)
    IN minArea > 0 /\ overlapArea * threshold[2] > threshold[1] * minArea

\* deduplicateEntities of pipeline.ts; LegacyWalk is its loop over the
\* sorted list
deduplicateEntitiesLegacy(ents) ==
    LET RECURSIVE LegacyWalk(_, _)
        LegacyWalk(sorted, res) ==
            IF Len(sorted) = 0 THEN res
            ELSE LET entity == Head(sorted)
                     overlaps == \E k \in 1..Len(res) :
                         /\ res[k].bbox.pageIndex = entity.bbox.pageIndex
                         /\ boxesOverlap(res[k].bbox, entity.bbox, <<1, 2>>)
                 IN LegacyWalk(Tail(sorted), IF overlaps THEN res ELSE Append(res, entity))
    IN LegacyWalk(StableSort(ents, "legacy"), <<>>)

\* A faulty required-fields step that leaves every entity masked.
markRequiredFieldsNoop(ents, required) == ents

\* "Apply required fields masking": the loop that sets masked = false on the
\* entities whose type is a required field.
markRequiredFields(ents, required) ==
    [i \in 1..Len(ents) |->
        IF ents[i].type \in required THEN [ents[i] EXCEPT !.masked = FALSE] ELSE ents[i]]

-----------------------------------------------------------------------------
(* The data path of runEnhancedDetectionPipeline and runDetectionPipeline: *)
(* the document's detections and the caller's configuration are drawn in   *)
(* Init, the AI's answers when the calls are made.                         *)

MaxPerSource == 1

FusionWords ==
    << Word("John", 0, 0, 20, 10), Word("Doe", 24, 0, 16, 10),
       Word("ABCPE1234F", 0, 40, 50, 10) >>

\* What runLayer1Detection can return: a PAN with a valid checksum (1.0) or
\* an invalid one (0.7).
RegexPool ==
    { Entity(0, "PAN", "ABCPE1234F", ONE, BBox(0, 40, 50, 10, 0), 1),
      Entity(0, "PAN", "ABCXE1234F", 70000, BBox(0, 40, 50, 10, 0), 1) }

\* What the name heuristics can return: one dictionary word (0.65) or two (0.78).
NlpPool ==
    { Entity(0, "NAME", "John", 65000, BBox(0, 0, 20, 10, 0), 2),
      Entity(0, "NAME", "John Doe", 78000, BBox(0, 0, 40, 10, 0), 2) }

\* Items the AI can return for the word-ID prompt; word 9 does not exist.
GeminiItemPool ==
    { [type |-> "NAME", value |-> "John Doe", wordIds |-> {0, 1}],
      [type |-> "pan number", value |-> "ABCPE1234F", wordIds |-> {2}],
      [type |-> "Person", value |-> "Jane", wordIds |-> {9}] }

\* Redaction zones the matching engine can compute from a forbidden list.
ZonePool ==
    { [type |-> "NAME", text |-> "John Doe", confidence |-> 90000,
       bbox |-> BBox(0, 0, 40, 10, 0)],
      [type |-> "PAN", text |-> "ABCPE1234F", confidence |-> 40000,
       bbox |-> BBox(0, 40, 50, 10, 0)] }

\* What the legacy runGeminiDetection can return (confidence 0.9, layer 2).
LegacyGeminiPool ==
    { Entity(<<"gem", 1>>, "NAME", "John Doe", 90000, BBox(0, 0, 40, 10, 0), 2) }

ConfidenceThresholds == { 0, 50000, 97000 }

\* Sequences of at most n elements of S
SeqUpTo(S, n) == UNION { [1..k -> S] : k \in 0..n }

\* A detector's output list: pool entities, ids made of the source and position
SourceLists(pool, tag) ==
    { [i \in 1..Len(f) |-> [f[i] EXCEPT !.id = <<tag, i>>]] : f \in SeqUpTo(pool, MaxPerSource) }

FusionInit ==
    /\ pipeline \in {"legacy", "enhanced"}
    /\ confidenceThreshold \in ConfidenceThresholds
    /\ requiredFields \in { {}, {"NAME"} }
    /\ geminiApiKey \in {"", "key"}
    /\ enableGemini \in BOOLEAN
    /\ (geminiApiKey = "" \/ pipeline = "legacy") => enableGemini
    /\ documentType \in { "generic", "invoice" }
    /\ pipeline = "legacy" => documentType = "generic"
    /\ detected \in [regex : SourceLists(RegexPool, "regex"),
                     \* what keyValuePairsToEntities can return
                     spatial : SourceLists(
                         { Entity(0, "NAME", "John Doe", 99000, BBox(0, 0, 40, 10, 0), 3),
                           Entity(0, "INVOICE_NO", "ABCPE1234F", 85000,
                                  BBox(0, 40, 50, 10, 0), 3) }, "kv"),
                     nlp : SourceLists(NlpPool, "nlp")]
    /\ pipeline = "legacy" => detected.spatial = <<>>
    /\ fusedEntities = <<>>
    /\ advancedEntities = <<>>
    /\ geminiEntities = <<>>
    /\ result = <<>>
    /\ fpc = "start"
    /\ DedupIdle /\ RetryIdle /\ PipeIdle /\ DetectIdle

\* The FusionConfig the advanced worker builds
WorkerConfig ==
    [ documentType |-> documentType,
      confidenceThreshold |-> confidenceThreshold,
      preferSpatialOverNLP |-> getRulesetForDocType(documentType).prioritizeSpatialContext,
      deduplicationOverlapThreshold |-> <<1, 2>> ]

\* Stages 2 to 5 of the advanced worker: the detectors its ruleset enables,
\* then fuse, with no ML entities.
WorkerFusion ==
    LET ruleset == getRulesetForDocType(documentType)
        spatialEntities == IF ruleset.prioritizeSpatialContext
                           THEN detected.spatial ELSE <<>>
        regexEntities == detected.regex
        nlpEntities == IF ~ruleset.skipParagraphNER THEN detected.nlp ELSE <<>>
    IN fuse(WorkerConfig, regexEntities, spatialEntities, nlpEntities, <<>>)

\* The advanced worker's message handler (WorkerPool.ts, self.onmessage) and
\* stage 1 of the pipeline, which takes its result or, when the worker call
\* rejects, goes on with no local entities.
EnhancedWorker ==
    /\ pipeline = "enhanced" /\ fpc = "start"
    /\ \E rejected \in BOOLEAN :
         /\ fusedEntities' = IF rejected THEN <<>> ELSE WorkerFusion.entities
         /\ advancedEntities' = IF rejected THEN <<>>
                                ELSE applyDocumentTypeBoost(WorkerConfig, WorkerFusion.entities)
    /\ fpc' = IF enableGemini /\ geminiApiKey # "" THEN "wordid" ELSE "merge"
    /\ UNCHANGED <<pipeline, confidenceThreshold, requiredFields, geminiApiKey,
                   enableGemini, documentType, detected, geminiEntities, result>>
    /\ UNCHANGED <<dedupVars, retryVars, pipeVars, detectVars>>

\* Stage 2: word-ID detection; the call resolves to entities or throws.
EnhancedWordId ==
    /\ pipeline = "enhanced" /\ fpc = "wordid"
    /\ \E throws \in BOOLEAN, items \in SeqUpTo(GeminiItemPool, MaxPerSource) :
         LET wordIdEntities == runWordIdPipeline(FusionWords, geminiApiKey, 0, items)
         IN geminiEntities' = IF ~throws /\ Len(wordIdEntities) > 0
                              THEN wordIdEntities ELSE <<>>
    /\ fpc' = IF Len(geminiEntities') = 0 THEN "fallback" ELSE "merge"
    /\ UNCHANGED <<pipeline, confidenceThreshold, requiredFields, geminiApiKey,
                   enableGemini, documentType, detected, fusedEntities,
                   advancedEntities, result>>
    /\ UNCHANGED <<dedupVars, retryVars, pipeVars, detectVars>>

\* Stage 3: the semantic-filter fallback; the forbidden-list call throws or
\* the matching engine turns its list into zones.
EnhancedFallback ==
    /\ pipeline = "enhanced" /\ fpc = "fallback"
    /\ \E throws \in BOOLEAN, zones \in SeqUpTo(ZonePool, MaxPerSource) :
         geminiEntities' = IF ~throws /\ Len(zones) > 0
                           THEN zonesToEntities(zones) ELSE geminiEntities
    /\ fpc' = "merge"
    /\ UNCHANGED <<pipeline, confidenceThreshold, requiredFields, geminiApiKey,
                   enableGemini, documentType, detected, fusedEntities,
                   advancedEntities, result>>
    /\ UNCHANGED <<dedupVars, retryVars, pipeVars, detectVars>>

\* Stage 4: merge, final deduplication, required-fields masking, return.
EnhancedFinish ==
    /\ pipeline = "enhanced" /\ fpc = "merge"
    /\ LET allEntities == advancedEntities \o geminiEntities
           deduped == deduplicateEntitiesFinal(allEntities)
       IN result' = markRequiredFields(deduped, requiredFields)
    /\ fpc' = "done"
    /\ UNCHANGED <<pipeline, confidenceThreshold, requiredFields, geminiApiKey,
                   enableGemini, documentType, detected, fusedEntities,
                   advancedEntities, geminiEntities>>
    /\ UNCHANGED <<dedupVars, retryVars, pipeVars, detectVars>>

\* runDetectionPipeline, steps 2 and 3: layer 1 runs inline; the NLP worker
\* resolves to its entities or rejects (error, timeout).
LegacyLocal ==
    /\ pipeline = "legacy" /\ fpc = "start"
    /\ \E rejected \in BOOLEAN :
         LET layer1Entities == detected.regex
             nlpEntities == IF rejected THEN <<>> ELSE detected.nlp
         IN advancedEntities' = layer1Entities \o nlpEntities
    /\ fpc' = IF geminiApiKey # "" THEN "wordid" ELSE "merge"
    /\ UNCHANGED <<pipeline, confidenceThreshold, requiredFields, geminiApiKey,
                   enableGemini, documentType, detected, fusedEntities,
                   geminiEntities, result>>
    /\ UNCHANGED <<dedupVars, retryVars, pipeVars, detectVars>>

\* Step 4, primary strategy: word-ID detection (under withRetry).
LegacyWordId ==
    /\ pipeline = "legacy" /\ fpc = "wordid"
    /\ \E throws \in BOOLEAN, items \in SeqUpTo(GeminiItemPool, MaxPerSource) :
         LET wordIdEntities == runWordIdPipeline(FusionWords, geminiApiKey, 0, items)
         IN geminiEntities' = IF ~throws /\ Len(wordIdEntities) > 0
                              THEN wordIdEntities ELSE <<>>
    /\ fpc' = IF Len(geminiEntities') = 0 THEN "fallback" ELSE "merge"
    /\ UNCHANGED <<pipeline, confidenceThreshold, requiredFields, geminiApiKey,
                   enableGemini, documentType, detected, fusedEntities,
                   advancedEntities, result>>
    /\ UNCHANGED <<dedupVars, retryVars, pipeVars, detectVars>>

\* Fallback A: forbidden list and matching engine; a throw leads to fallback B.
LegacyFallbackA ==
    /\ pipeline = "legacy" /\ fpc = "fallback"
    /\ \E throws \in BOOLEAN, zones \in SeqUpTo(ZonePool, MaxPerSource) :
         /\ geminiEntities' = IF ~throws /\ Len(zones) > 0
                              THEN zonesToEntities(zones) ELSE geminiEntities
         /\ fpc' = IF throws THEN "fallbackB" ELSE "merge"
    /\ UNCHANGED <<pipeline, confidenceThreshold, requiredFields, geminiApiKey,
                   enableGemini, documentType, detected, fusedEntities,
                   advancedEntities, result>>
    /\ UNCHANGED <<dedupVars, retryVars, pipeVars, detectVars>>

\* Fallback B: the legacy entity-based detection.
LegacyFallbackB ==
    /\ pipeline = "legacy" /\ fpc = "fallbackB"
    /\ \E throws \in BOOLEAN, legacyEntities \in SeqUpTo(LegacyGeminiPool, MaxPerSource) :
         geminiEntities' = IF throws THEN geminiEntities ELSE legacyEntities
    /\ fpc' = "merge"
    /\ UNCHANGED <<pipeline, confidenceThreshold, requiredFields, geminiApiKey,
                   enableGemini, documentType, detected, fusedEntities,
                   advancedEntities, result>>
    /\ UNCHANGED <<dedupVars, retryVars, pipeVars, detectVars>>

\* Steps 5 and 6: merge, deduplicate, filter by confidence, mark required
\* fields, return.
LegacyFinish ==
    /\ pipeline = "legacy" /\ fpc = "merge"
    /\ LET allEntities == advancedEntities \o geminiEntities
           deduped == deduplicateEntitiesLegacy(allEntities)
           filtered == SelectSeq(deduped, LAMBDA e : e.confidence >= confidenceThreshold)
       IN result' = markRequiredFields(filtered, requiredFields)
    /\ fpc' = "done"
    /\ UNCHANGED <<pipeline, confidenceThreshold, requiredFields, geminiApiKey,
                   enableGemini, documentType, detected, fusedEntities,
                   advancedEntities, geminiEntities>>
    /\ UNCHANGED <<dedupVars, retryVars, pipeVars, detectVars>>

SpecFusion ==
    FusionInit /\ [][ \/ EnhancedWorker \/ EnhancedWordId \/ EnhancedFallback \/ EnhancedFinish
                      \/ LegacyLocal \/ LegacyWordId \/ LegacyFallbackA \/ LegacyFallbackB
                      \/ LegacyFinish ]_vars

-----------------------------------------------------------------------------
(* Claims about the returned lists, checked under SpecFusion *)

\* C3: in the list either pipeline returns, an entity is unmasked exactly
\* when its type is one of the caller's required fields.
C3_MaskedIffNotRequired ==
    fpc = "done" =>
        \A i \in 1..Len(result) :
            (result[i].masked = FALSE) <=> (result[i].type \in requiredFields)

\* C3 witness: a returned list holding an unmasked required entity next to a
\* masked one that came from the AI.
C3_Witness ==
    /\ fpc = "done"
    /\ \E i, j \in 1..Len(result) :
         /\ ~result[i].masked /\ result[i].type \in requiredFields
         /\ result[j].masked /\ result[j].layer = 4

\* The confidence an entity of the returned list had before the
\* document-type boost: worker entities are boosted after fusion, AI
\* entities are never boosted.
PreBoostConfidence(e) ==
    IF \E k \in 1..Len(fusedEntities) : fusedEntities[k].id = e.id
    THEN (CHOOSE f \in Range(fusedEntities) : f.id = e.id).confidence
    ELSE e.confidence

\* C4 (as stated): every entity runEnhancedDetectionPipeline returns,
\* whichever source it came from, has a pre-boost confidence of at least the
\* caller's confidence threshold.
C4_AllAboveThreshold ==
    (pipeline = "enhanced" /\ fpc = "done") =>
        \A i \in 1..Len(result) : PreBoostConfidence(result[i]) >= confidenceThreshold

\* C4, the part that holds: the entities that came through the worker's
\* fusion are at or above the threshold before the boost.
C4_WorkerAboveThreshold ==
    (pipeline = "enhanced" /\ fpc = "done") =>
        \A i \in 1..Len(result) :
            (\E k \in 1..Len(fusedEntities) : fusedEntities[k].id = result[i].id)
                => PreBoostConfidence(result[i]) >= confidenceThreshold

\* C4 witness: the pipeline returns a word-ID entity (confidence 0.95) under
\* a threshold of 0.97.
C4_Witness ==
    /\ pipeline = "enhanced" /\ fpc = "done"
    /\ confidenceThreshold = 97000
    /\ \E i \in 1..Len(result) :
         result[i].layer = 4 /\ result[i].id[1] = "wid" /\ result[i].confidence = 95000

\* C21: the document-type boost is applied after the confidence filter.  An
\* entity the advanced worker returns has a normalized confidence of at least
\* confidenceThreshold, so one below it is absent even when its boosted
\* confidence would reach the threshold, and its confidence is
\* min(normalized confidence x boost, 1.0), the boost being the
\* confidenceBoost of the ruleset of the document type.
C21_BoostAfterFilter ==
    (pipeline = "enhanced" /\ fpc # "start") =>
        LET boost == getRulesetForDocType(documentType).confidenceBoost
            all == detected.regex \o detected.spatial \o detected.nlp
        IN \A k \in 1..Len(advancedEntities) :
              \E i \in 1..Len(all) :
                  LET n == normalizeConfidenceByLayer(all[i]).confidence
                  IN /\ all[i].id = advancedEntities[k].id
                     /\ n >= confidenceThreshold
                     /\ IF n * boost >= ONE * 100
                        THEN advancedEntities[k].confidence = ONE
                        ELSE advancedEntities[k].confidence * 100 = n * boost

\* C21 witness: on an invoice with threshold 0.97 the worker returned the
\* key-value name, boosted from 0.99 to 1.0, and not the PAN, whose normalized
\* confidence 0.95 is below the threshold although 0.95 x 1.2 is above it.
C21_Witness ==
    /\ pipeline = "enhanced" /\ fpc # "start"
    /\ documentType = "invoice" /\ confidenceThreshold = 97000
    /\ Len(detected.regex) = 1
    /\ normalizeConfidenceByLayer(detected.regex[1]).confidence = 95000
    /\ 95000 * getRulesetForDocType(documentType).confidenceBoost >= 97000 * 100
    /\ Len(advancedEntities) = 1
    /\ advancedEntities[1].id = <<"kv", 1>>
    /\ advancedEntities[1].confidence = ONE

-----------------------------------------------------------------------------
(* withRetry (pipeline.ts)                                                 *)
(*                                                                         *)
(* An error message is modelled by the set of text fragments it contains,  *)
(* each as written (case preserved).  toLowerCase lower-cases every        *)
(* fragment; includes(needle) holds when the needle is one of them.        *)

MaxRetries == 2

ToLowerFragment(p) ==
    CASE p = "RESOURCE_EXHAUSTED" -> "resource_exhausted"
      [] p = "Quota" -> "quota"
      [] p = "Daily Limit" -> "daily limit"
      [] p = "Rate Limit Exceeded" -> "rate limit exceeded"
      [] p = "Gemini API error" -> "gemini api error"
      [] p = "Failed to fetch" -> "failed to fetch"
      [] OTHER -> p

toLowerCase(message) == { ToLowerFragment(p) : p \in message }

includes(message, needle) == needle \in message

\* A faulty catch block that retries after any failure without a quota marker.
retryDecisionAnyError(message, att, maxR) ==
    LET errorMsg == toLowerCase(message)
    IN IF \/ includes(errorMsg, "resource_exhausted")
          \/ includes(errorMsg, "quota")
          \/ includes(errorMsg, "daily limit")
          \/ includes(errorMsg, "rate limit exceeded")
       THEN "throw"
       ELSE IF att >= maxR THEN "throw"
       ELSE "wait"

\* A faulty catch block that looks for '429' before the quota markers.
retryDecision429First(message, att, maxR) ==
    LET errorMsg == toLowerCase(message)
    IN IF includes(errorMsg, "429") /\ att < maxR THEN "wait" ELSE "throw"

\* The catch block of withRetry: "throw" rethrows lastError, "wait" sleeps
\* and goes round the loop.
retryDecision(message, att, maxR) ==
    LET errorMsg == toLowerCase(message)
    IN IF \/ includes(errorMsg, "resource_exhausted")
          \/ includes(errorMsg, "quota")
          \/ includes(errorMsg, "daily limit")
          \/ includes(errorMsg, "rate limit exceeded")
       THEN "throw"
       ELSE IF ~includes(errorMsg, "429") \/ att >= maxR THEN "throw"
       ELSE "wait"

\* What fn can resolve to, by the call withRetry wraps.
FnValues(name) ==
    CASE name = "wordid" ->
            { runWordIdPipeline(FusionWords, "key", 0, items) :
                items \in SeqUpTo(GeminiItemPool, MaxPerSource) }
      [] name = "fallbackA" -> SeqUpTo(ZonePool, MaxPerSource)
      [] name = "fallbackB" -> SeqUpTo(LegacyGeminiPool, MaxPerSource)
      [] OTHER -> {"value"}

\* withRetry(fn, maxR, initialDelayMs) up to its first await: the loop is
\* entered with attempt 0 and fn is called.
RetryEnter(name, maxR, initialDelayMs) ==
    /\ fnName' = name
    /\ maxRetries' = maxR
    /\ attempt' = 0
    /\ delay' = <<initialDelayMs, 1>>
    /\ calls' = 1
    /\ waits' = <<>>
    /\ lastError' = NoError
    /\ retVal' = "none"
    /\ rPc' = "awaitFn"

RetryInit ==
    /\ rPc = "start"
    /\ fnName = "fn"
    /\ maxRetries \in 0..MaxRetries
    /\ delay \in { <<1000, 1>>, <<5000, 1>> }
    /\ attempt = 0 /\ calls = 0 /\ waits = <<>> /\ lastError = NoError
    /\ retVal = "none" /\ aiResponds = TRUE
    /\ DedupIdle /\ FusionIdle /\ PipeIdle /\ DetectIdle

RetryStart ==
    /\ rPc = "start"
    /\ RetryEnter(fnName, maxRetries, delay[1])
    /\ UNCHANGED aiResponds
    /\ UNCHANGED <<dedupVars, fusionVars, pipeVars, detectVars>>

\* fn's promise resolves: withRetry returns the value.
FnResolves ==
    /\ rPc = "awaitFn" /\ aiResponds
    /\ \E v \in FnValues(fnName) : retVal' = v
    /\ rPc' = "returned"
    /\ UNCHANGED <<fnName, maxRetries, attempt, delay, calls, waits, lastError, aiResponds>>
    /\ UNCHANGED <<dedupVars, fusionVars, pipeVars, detectVars>>

\* fn's promise rejects: the catch block rethrows or sets the back-off timer.
\* callGeminiWithTokens throws "Gemini API error <status>: <body>"; fetch
\* itself rejects with "Failed to fetch".
FnRejects ==
    /\ rPc = "awaitFn" /\ aiResponds
    /\ \E message \in { {"Gemini API error", "429"},
                         {"Gemini API error", "429", "RESOURCE_EXHAUSTED", "Quota"},
                         {"Gemini API error", "429", "Daily Limit"},
                         {"Gemini API error", "429", "Rate Limit Exceeded"},
                         {"quota"},
                         {"Gemini API error", "500"},
                         {"Failed to fetch"} } :
         /\ lastError' = message
         /\ rPc' = IF retryDecision(message, attempt, maxRetries) = "throw"
                   THEN "thrown" ELSE "awaitTimer"
    /\ UNCHANGED <<fnName, maxRetries, attempt, delay, calls, waits, retVal, aiResponds>>
    /\ UNCHANGED <<dedupVars, fusionVars, pipeVars, detectVars>>

\* The back-off timer fires: delay *= 1.5, attempt++, fn is called again.
RetryTimerFires ==
    /\ rPc = "awaitTimer"
    /\ waits' = Append(waits, delay)
    /\ delay' = <<delay[1] * 3, delay[2] * 2>>
    /\ attempt' = attempt + 1
    /\ calls' = calls + 1
    /\ rPc' = "awaitFn"
    /\ UNCHANGED <<fnName, maxRetries, lastError, retVal, aiResponds>>
    /\ UNCHANGED <<dedupVars, fusionVars, pipeVars, detectVars>>

SpecRetry == RetryInit /\ [][RetryStart \/ FnResolves \/ FnRejects \/ RetryTimerFires]_vars

-----------------------------------------------------------------------------
(* Claims about withRetry, checked under SpecRetry *)

\* The message carries a quota marker in any letter case.
IsQuotaMessage(message) ==
    \E p \in message :
        ToLowerFragment(p) \in {"resource_exhausted", "quota", "daily limit",
                                 "rate limit exceeded"}

\* C6: once fn has rejected with a message carrying a quota marker (in any
\* case, with or without '429'), withRetry has rethrown it: it is neither
\* waiting for a back-off timer nor inside another call of fn.
C6_QuotaFailsFast ==
    (lastError # NoError /\ IsQuotaMessage(lastError)) =>
        /\ rPc = "thrown"
        /\ calls = attempt + 1
        /\ Len(waits) = attempt

\* C6 witness: the first call rejects with an upper-case quota marker and a
\* '429' while retries are left; withRetry has thrown after that one call.
C6_Witness ==
    /\ rPc = "thrown"
    /\ "429" \in lastError /\ "RESOURCE_EXHAUSTED" \in lastError
    /\ attempt < maxRetries
    /\ calls = 1 /\ waits = <<>>

\* The failure is a rate limit that may be retried: its message contains
\* '429' and no quota marker.
Retryable(message) == "429" \in message /\ ~IsQuotaMessage(message)

\* C23: withRetry calls fn at most maxRetries + 1 times; it calls fn again
\* only after a failure whose message contains '429' and no quota marker; any
\* other failure is rethrown at once; and once a call succeeded its value is
\* returned and fn is not called again.
C23_RetryDiscipline ==
    /\ [](calls <= maxRetries + 1)
    /\ [][ /\ (calls >= 1 /\ calls' > calls) => Retryable(lastError)
           /\ (lastError' # lastError /\ ~Retryable(lastError')) => rPc' = "thrown"
           /\ (rPc = "awaitFn" /\ retVal' # retVal) => rPc' = "returned"
           /\ rPc = "returned" => (calls' = calls /\ retVal' = retVal) ]_vars
    /\ [](rPc = "returned" => retVal \in FnValues(fnName))

\* C23 witness: fn failed twice with a plain 429, was called a third and
\* last time, succeeded, and its value was returned.
C23_Witness ==
    /\ rPc = "returned"
    /\ maxRetries = 2 /\ calls = 3 /\ Len(waits) = 2
    /\ lastError = {"Gemini API error", "429"}
    /\ retVal \in FnValues(fnName)

-----------------------------------------------------------------------------
(* Control flow of the two pipelines: the async function, its worker, the  *)
(* worker's time-out and the AI calls.  Each action is one turn of an      *)
(* event loop: a handler together with the continuation it resumes, up to  *)
(* the next await.                                                         *)

\* A faulty WorkerPool.terminate that leaves the worker alive.
poolTerminateNoop(w) == w

\* WorkerPool.terminate: this.advancedWorker?.terminate()
poolTerminate(w) == IF w = "none" THEN "none" ELSE "terminated"

\* A pipeline in which the legacy fallback is not wrapped in try/catch.
afterThrowUncaught(pl, stage) ==
    CASE stage = "wordid" -> "fallbackA"
      [] stage = "fallbackA" -> IF pl = "legacy" THEN "fallbackB" ELSE "merge"
      [] OTHER -> "aborted"

\* Where control goes when an AI strategy throws: the catch blocks.
afterThrow(pl, stage) ==
    CASE stage = "wordid" -> "fallbackA"
      [] stage = "fallbackA" -> IF pl = "legacy" THEN "fallbackB" ELSE "merge"
      [] OTHER -> "merge"

GeminiOn == geminiApiKey # "" /\ (pipeline = "enhanced" => enableGemini)

PipeInit ==
    /\ pipeline \in {"legacy", "enhanced"}
    /\ confidenceThreshold = 50000
    /\ requiredFields = {"NAME"}
    /\ geminiApiKey \in {"", "key"}
    /\ enableGemini \in BOOLEAN
    /\ (geminiApiKey = "" \/ pipeline = "legacy") => enableGemini
    /\ documentType = "generic"
    /\ detected \in [regex : SourceLists(RegexPool, "regex"),
                     spatial : {<<>>},
                     nlp : SourceLists(NlpPool, "nlp")]
    /\ fusedEntities = <<>> /\ advancedEntities = <<>> /\ geminiEntities = <<>>
    /\ result = <<>> /\ fpc = "off"
    /\ aiResponds \in BOOLEAN
    /\ rPc = "off" /\ fnName = "none" /\ maxRetries = 0 /\ attempt = 0
    /\ delay = <<0, 1>> /\ calls = 0 /\ waits = <<>> /\ lastError = NoError
    /\ retVal = "none"
    /\ ppc = "start" /\ worker = "none" /\ workerMsg = "none" /\ callbackSet = FALSE
    /\ timer = "none" /\ workerPromise = "none" /\ fuseRan = FALSE /\ aiSettled = {}
    /\ advancedCalls = <<>> /\ advancedCallbacks = <<>> /\ advancedInbox = <<>>
    /\ advancedOutbox = <<>> /\ ocrCalls = <<>> /\ ocrCallbacks = <<>>
    /\ ocrOutbox = <<>> /\ progressCallback = FALSE
    /\ DedupIdle /\ DetectIdle

pipeData == <<pipeline, confidenceThreshold, requiredFields, geminiApiKey,
              enableGemini, documentType, detected, fpc>>

\* ---- runDetectionPipeline ------------------------------------------------

\* Steps 1-3 up to the await: layer 1 runs inline, runNLPWorker creates the
\* worker, arms the 10 s time-out and posts the request.
LegacyStart ==
    /\ pipeline = "legacy" /\ ppc = "start"
    /\ advancedEntities' = detected.regex
    /\ worker' = "running" /\ timer' = "armed" /\ workerPromise' = "pending"
    /\ ppc' = "awaitNlp"
    /\ UNCHANGED <<fusedEntities, geminiEntities, result, workerMsg, callbackSet,
                   fuseRan, aiSettled>>
    /\ UNCHANGED <<pipeData, poolVars, dedupVars, retryVars, detectVars>>

\* The NLP worker's handler posts NLP_RESULT or NLP_ERROR, or the worker
\* raises an error event.
NlpWorkerPosts ==
    /\ pipeline = "legacy" /\ worker = "running" /\ workerMsg = "none"
    /\ workerMsg' \in {"NLP_RESULT", "NLP_ERROR", "error"}
    /\ worker' = "idle"
    /\ UNCHANGED <<fusedEntities, advancedEntities, geminiEntities, result, ppc,
                   callbackSet, timer, workerPromise, fuseRan, aiSettled>>
    /\ UNCHANGED <<pipeData, poolVars, dedupVars, retryVars, detectVars>>

\* What runDetectionPipeline does once runNLPWorker has settled with nlp (the
\* empty list after a rejection), up to its next await.
LegacyAfterNlp(nlpEntities) ==
    /\ advancedEntities' = advancedEntities \o nlpEntities
    /\ IF geminiApiKey # ""
       THEN /\ RetryEnter("wordid", 2, 5000)
            /\ ppc' = "wordid"
       ELSE /\ ppc' = "merge"
            /\ UNCHANGED <<rPc, fnName, maxRetries, attempt, delay, calls, waits,
                           lastError, retVal>>
    /\ UNCHANGED <<fusedEntities, geminiEntities, result, callbackSet, fuseRan,
                   aiSettled, aiResponds>>
    /\ UNCHANGED <<pipeData, poolVars, dedupVars, detectVars>>

\* worker.onmessage / worker.onerror of runNLPWorker
NlpOnMessage ==
    /\ pipeline = "legacy" /\ ppc = "awaitNlp"
    /\ worker = "idle" /\ workerMsg # "none"
    /\ timer' = "cleared"
    /\ worker' = "terminated"          \* worker.terminate()
    /\ workerMsg' = "none"
    /\ workerPromise' = IF workerMsg = "NLP_RESULT" THEN "resolved" ELSE "rejected"
    /\ LegacyAfterNlp(IF workerMsg = "NLP_RESULT" THEN detected.nlp ELSE <<>>)

\* The 10 s time-out of runNLPWorker
NlpTimeout ==
    /\ pipeline = "legacy" /\ ppc = "awaitNlp" /\ timer = "armed"
    /\ timer' = "fired"
    /\ worker' = "terminated"          \* worker.terminate()
    /\ workerPromise' = "rejected"
    /\ UNCHANGED workerMsg
    /\ LegacyAfterNlp(<<>>)

\* withRetry(word-ID) has returned or thrown.
LegacyAfterWordId ==
    /\ pipeline = "legacy" /\ ppc = "wordid" /\ rPc \in {"returned", "thrown"}
    /\ aiSettled' = aiSettled \cup {"wordid"}
    /\ geminiEntities' = IF rPc = "returned" /\ Len(retVal) > 0 THEN retVal ELSE <<>>
    /\ LET next == IF rPc = "thrown" THEN afterThrow(pipeline, "wordid")
                   ELSE IF Len(geminiEntities') = 0 THEN "fallbackA" ELSE "merge"
       IN /\ ppc' = next
          /\ IF next = "fallbackA"
             THEN RetryEnter("fallbackA", 2, 5000)
             ELSE UNCHANGED <<rPc, fnName, maxRetries, attempt, delay, calls, waits,
                              lastError, retVal>>
    /\ UNCHANGED <<fusedEntities, advancedEntities, result, worker, workerMsg,
                   callbackSet, timer, workerPromise, fuseRan, aiResponds>>
    /\ UNCHANGED <<pipeData, poolVars, dedupVars, detectVars>>

\* withRetry(getGeminiForbiddenList) has returned or thrown.
LegacyAfterFallbackA ==
    /\ pipeline = "legacy" /\ ppc = "fallbackA" /\ rPc \in {"returned", "thrown"}
    /\ aiSettled' = aiSettled \cup {"fallbackA"}
    /\ geminiEntities' = IF rPc = "returned" /\ Len(retVal) > 0
                         THEN zonesToEntities(retVal) ELSE geminiEntities
    /\ LET next == IF rPc = "thrown" THEN afterThrow(pipeline, "fallbackA") ELSE "merge"
       IN /\ ppc' = next
          /\ IF next = "fallbackB"
             THEN RetryEnter("fallbackB", 1, 5000)
             ELSE UNCHANGED <<rPc, fnName, maxRetries, attempt, delay, calls, waits,
                              lastError, retVal>>
    /\ UNCHANGED <<fusedEntities, advancedEntities, result, worker, workerMsg,
                   callbackSet, timer, workerPromise, fuseRan, aiResponds>>
    /\ UNCHANGED <<pipeData, poolVars, dedupVars, detectVars>>

\* withRetry(runGeminiDetection) has returned or thrown.
LegacyAfterFallbackB ==
    /\ pipeline = "legacy" /\ ppc = "fallbackB" /\ rPc \in {"returned", "thrown"}
    /\ aiSettled' = aiSettled \cup {"fallbackB"}
    /\ geminiEntities' = IF rPc = "returned" THEN retVal ELSE geminiEntities
    /\ ppc' = IF rPc = "thrown" THEN afterThrow(pipeline, "fallbackB") ELSE "merge"
    /\ UNCHANGED <<fusedEntities, advancedEntities, result, worker, workerMsg,
                   callbackSet, timer, workerPromise, fuseRan>>
    /\ UNCHANGED <<pipeData, poolVars, dedupVars, retryVars, detectVars>>

\* Steps 5-6 and the return, once the AI stage is over or was skipped.
LegacyReturn ==
    /\ pipeline = "legacy" /\ ppc = "merge"
    /\ LET allEntities == advancedEntities \o geminiEntities
           deduped == deduplicateEntitiesLegacy(allEntities)
           filtered == SelectSeq(deduped, LAMBDA e : e.confidence >= confidenceThreshold)
       IN result' = markRequiredFields(filtered, requiredFields)
    /\ ppc' = "done"
    /\ UNCHANGED <<fusedEntities, advancedEntities, geminiEntities, worker, workerMsg,
                   callbackSet, timer, workerPromise, fuseRan, aiSettled>>
    /\ UNCHANGED <<pipeData, poolVars, dedupVars, retryVars, detectVars>>

\* ---- runEnhancedDetectionPipeline ----------------------------------------

\* Stage 1 up to the await: new WorkerPool, runAdvancedDetection creates the
\* worker, registers the callback, arms the 30 s time-out, posts the request.
EnhancedStart ==
    /\ pipeline = "enhanced" /\ ppc = "start"
    /\ worker' = "running" /\ callbackSet' = TRUE /\ timer' = "armed"
    /\ workerPromise' = "pending"
    /\ ppc' = "awaitWorker"
    /\ UNCHANGED <<fusedEntities, advancedEntities, geminiEntities, result, workerMsg,
                   fuseRan, aiSettled>>
    /\ UNCHANGED <<pipeData, poolVars, dedupVars, retryVars, detectVars>>

\* The advanced worker's self.onmessage: classification, detectors, fuse,
\* boost, DETECTION_RESULT; an exception thrown on the way is posted as
\* DETECTION_ERROR.
AdvancedWorkerHandles ==
    /\ pipeline = "enhanced" /\ worker = "running"
    /\ \E failed \in BOOLEAN :
         IF failed
         THEN /\ workerMsg' = "DETECTION_ERROR"
              /\ UNCHANGED <<fusedEntities, fuseRan>>
         ELSE /\ workerMsg' = "DETECTION_RESULT"
              /\ fusedEntities' = WorkerFusion.entities
              /\ fuseRan' = TRUE
    /\ worker' = "idle"
    /\ UNCHANGED <<advancedEntities, geminiEntities, result, ppc, callbackSet, timer,
                   workerPromise, aiSettled>>
    /\ UNCHANGED <<pipeData, poolVars, dedupVars, retryVars, detectVars>>

\* advancedWorker.onmessage in the pool: the first pending callback gets the
\* message; with no callback left (after the time-out) it is dropped.  Once
\* runAdvancedDetection has settled the pipeline runs up to its next await
\* (the word-ID call) or to stage 4.
PoolOnMessage ==
    /\ pipeline = "enhanced" /\ worker = "idle" /\ workerMsg # "none"
    /\ workerMsg' = "none"
    /\ IF callbackSet
       THEN /\ callbackSet' = FALSE
            /\ timer' = "cleared"
            /\ workerPromise' = IF workerMsg = "DETECTION_RESULT"
                                THEN "resolved" ELSE "rejected"
            /\ advancedEntities' = IF workerMsg = "DETECTION_RESULT"
                                   THEN applyDocumentTypeBoost(WorkerConfig, fusedEntities)
                                   ELSE <<>>
            /\ ppc' = IF enableGemini /\ geminiApiKey # "" THEN "wordid" ELSE "merge"
       ELSE UNCHANGED <<callbackSet, timer, workerPromise, advancedEntities, ppc>>
    /\ UNCHANGED <<fusedEntities, geminiEntities, result, worker, fuseRan, aiSettled>>
    /\ UNCHANGED <<pipeData, poolVars, dedupVars, retryVars, detectVars>>

\* The 30 s time-out of runAdvancedDetection: the callback is deleted and the
\* promise rejected; the worker is left running.
AdvancedTimeout ==
    /\ pipeline = "enhanced" /\ timer = "armed"
    /\ timer' = "fired"
    /\ callbackSet' = FALSE
    /\ workerPromise' = "rejected"
    /\ ppc' = IF enableGemini /\ geminiApiKey # "" THEN "wordid" ELSE "merge"
    /\ UNCHANGED <<fusedEntities, advancedEntities, geminiEntities, result, worker,
                   workerMsg, fuseRan, aiSettled>>
    /\ UNCHANGED <<pipeData, poolVars, dedupVars, retryVars, detectVars>>

\* Stage 2: runWordIdPipeline settles (it is awaited directly, no withRetry).
EnhancedWordIdSettles ==
    /\ pipeline = "enhanced" /\ ppc = "wordid" /\ aiResponds
    /\ aiSettled' = aiSettled \cup {"wordid"}
    /\ \E throws \in BOOLEAN, wordIdEntities \in FnValues("wordid") :
         /\ geminiEntities' = IF ~throws /\ Len(wordIdEntities) > 0
                              THEN wordIdEntities ELSE <<>>
         /\ ppc' = IF throws THEN afterThrow(pipeline, "wordid")
                   ELSE IF Len(wordIdEntities) = 0 THEN "fallbackA" ELSE "merge"
    /\ UNCHANGED <<fusedEntities, advancedEntities, result, worker, workerMsg,
                   callbackSet, timer, workerPromise, fuseRan>>
    /\ UNCHANGED <<pipeData, poolVars, dedupVars, retryVars, detectVars>>

\* Stage 3: getGeminiForbiddenList settles.
EnhancedFallbackSettles ==
    /\ pipeline = "enhanced" /\ ppc = "fallbackA" /\ aiResponds
    /\ aiSettled' = aiSettled \cup {"fallbackA"}
    /\ \E throws \in BOOLEAN, zones \in FnValues("fallbackA") :
         /\ geminiEntities' = IF ~throws /\ Len(zones) > 0
                              THEN zonesToEntities(zones) ELSE geminiEntities
         /\ ppc' = IF throws THEN afterThrow(pipeline, "fallbackA") ELSE "merge"
    /\ UNCHANGED <<fusedEntities, advancedEntities, result, worker, workerMsg,
                   callbackSet, timer, workerPromise, fuseRan>>
    /\ UNCHANGED <<pipeData, poolVars, dedupVars, retryVars, detectVars>>

\* Stage 4: merge, final deduplication, masking, workerPool.terminate(), return.
EnhancedReturn ==
    /\ pipeline = "enhanced" /\ ppc = "merge"
    /\ LET allEntities == advancedEntities \o geminiEntities
           deduped == deduplicateEntitiesFinal(allEntities)
       IN result' = markRequiredFields(deduped, requiredFields)
    /\ worker' = poolTerminate(worker)
    /\ callbackSet' = FALSE
    /\ ppc' = "done"
    /\ UNCHANGED <<fusedEntities, advancedEntities, geminiEntities, workerMsg, timer,
                   workerPromise, fuseRan, aiSettled>>
    /\ UNCHANGED <<pipeData, poolVars, dedupVars, retryVars, detectVars>>

\* Promise settlements, messages and timers
PipeEvents ==
    \/ LegacyStart \/ NlpWorkerPosts \/ NlpOnMessage \/ NlpTimeout
    \/ FnResolves \/ FnRejects \/ RetryTimerFires
    \/ LegacyAfterWordId \/ LegacyAfterFallbackA \/ LegacyAfterFallbackB
    \/ EnhancedStart \/ PoolOnMessage \/ AdvancedTimeout
    \/ EnhancedWordIdSettles \/ EnhancedFallbackSettles

SpecPipe ==
    PipeInit /\ [][ \/ PipeEvents
                    \/ AdvancedWorkerHandles
                    \/ LegacyReturn
                    \/ EnhancedReturn ]_vars

-----------------------------------------------------------------------------
(* Claims about the pipelines' control flow, checked under SpecPipe *)

\* What runDetectionPipeline returns when it has no API key: the local
\* entities deduplicated, filtered and marked.
NoKeyResult ==
    markRequiredFields(
        SelectSeq(deduplicateEntitiesLegacy(advancedEntities),
                  LAMBDA e : e.confidence >= confidenceThreshold),
        requiredFields)

\* C5: no failure of an AI strategy aborts the pipeline, and when no strategy
\* yields entities runDetectionPipeline returns what it returns without an
\* API key.
C5_AiFailureDegrades ==
    /\ ppc # "aborted"
    /\ (pipeline = "legacy" /\ ppc = "done" /\ geminiEntities = <<>>)
           => result = NoKeyResult

\* C5 witness: with a key, all three strategies were tried and failed, the
\* last one on a quota error, and the pipeline returned the local entities.
C5_Witness ==
    /\ pipeline = "legacy" /\ ppc = "done" /\ geminiApiKey # ""
    /\ aiSettled = {"wordid", "fallbackA", "fallbackB"}
    /\ rPc = "thrown" /\ IsQuotaMessage(lastError)
    /\ geminiEntities = <<>>
    /\ Len(result) > 0

\* C7 (as stated): the AI call is bounded by a time-out, so a pipeline that
\* has not returned can always take a step, even when the AI never answers:
\* the final steps are ready, the worker is computing, or a settlement, a
\* message or a timer is due.
C7_NeverStuck ==
    \/ ppc = "done"
    \/ (pipeline = "legacy" /\ ppc = "merge")
    \/ (pipeline = "enhanced" /\ ppc = "merge")
    \/ (pipeline = "enhanced" /\ worker = "running")
    \/ ENABLED PipeEvents

\* C7 witness: a pipeline awaiting an AI call that never settles.
C7_Witness ==
    /\ ~aiResponds
    /\ ppc = "wordid"
    /\ timer # "armed" /\ workerMsg = "none" /\ worker # "running"

C9_FuseWaitsForAi ==
    (pipeline = "enhanced" /\ GeminiOn /\ fuseRan) => aiSettled # {}

\* C9 witness: fuse has run in the worker and the pipeline is only now
\* awaiting the first AI call.
C9_Witness ==
    /\ pipeline = "enhanced" /\ GeminiOn
    /\ fuseRan /\ ppc = "wordid" /\ aiSettled = {}

\* C24 (as stated): with an API key, runDetectionPipeline tries word-ID
\* detection, then the semantic filter, then legacy detection, in that order,
\* and stops only when a strategy has yielded entities or all three have been
\* tried: a later strategy is tried whenever the earlier ones produced no
\* entities, whether they returned an empty list or failed.
C24_FallbackChain ==
    (pipeline = "legacy" /\ geminiApiKey # "") =>
        /\ "fallbackA" \in aiSettled => "wordid" \in aiSettled
        /\ "fallbackB" \in aiSettled => "fallbackA" \in aiSettled
        /\ (ppc \in {"merge", "done"} /\ geminiEntities = <<>>)
               => aiSettled = {"wordid", "fallbackA", "fallbackB"}

\* C24 witness: word-ID detection and the semantic filter both settled, the
\* semantic filter by returning an empty list, and the pipeline returned
\* without AI entities and without trying legacy detection.
C24_Witness ==
    /\ pipeline = "legacy" /\ geminiApiKey # "" /\ ppc = "done"
    /\ aiSettled = {"wordid", "fallbackA"}
    /\ fnName = "fallbackA" /\ rPc = "returned" /\ retVal = <<>>
    /\ geminiEntities = <<>>

-----------------------------------------------------------------------------
(* WorkerPool.ts: one pool serving several calls.  A call is named by its  *)
(* position in the order of the calls; a message a worker posts carries    *)
(* the request it answers for the claims to read, the pool's handlers      *)
(* never look at it (the messages of the code hold no request id).         *)

MaxCalls == 2
MaxProgress == 1

PoolInit ==
    /\ advancedCalls = <<>> /\ advancedCallbacks = <<>> /\ advancedInbox = <<>>
    /\ advancedOutbox = <<>> /\ ocrCalls = <<>> /\ ocrCallbacks = <<>>
    /\ ocrOutbox = <<>>
    /\ progressCallback \in BOOLEAN
    /\ ppc = "off" /\ worker = "none" /\ workerMsg = "none" /\ callbackSet = FALSE
    /\ timer = "none" /\ workerPromise = "none" /\ fuseRan = FALSE /\ aiSettled = {}
    /\ DedupIdle /\ FusionIdle /\ RetryIdle /\ DetectIdle

\* runAdvancedDetection up to the return of the promise: the worker is
\* created by the first call and posts WORKER_READY when it has loaded; the
\* time-out is armed, the callback registered, the request posted.
RunAdvancedDetection ==
    /\ Len(advancedCalls) < MaxCalls
    /\ LET id == Len(advancedCalls) + 1
       IN /\ advancedCalls' = Append(advancedCalls,
                 [promise |-> "pending", timer |-> "armed", settledBy |-> 0])
          /\ advancedCallbacks' = Append(advancedCallbacks, id)
          /\ advancedInbox' = Append(advancedInbox, id)
          /\ advancedOutbox' = IF id = 1
                               THEN <<[type |-> "WORKER_READY", request |-> 0]>>
                               ELSE advancedOutbox
    /\ UNCHANGED <<ocrCalls, ocrCallbacks, ocrOutbox, progressCallback>>
    /\ UNCHANGED <<ppc, worker, workerMsg, callbackSet, timer, workerPromise, fuseRan,
                   aiSettled>>
    /\ UNCHANGED <<dedupVars, fusionVars, retryVars, detectVars>>

\* self.onmessage of the advanced worker, whose handler has no await: the
\* oldest request is answered with DETECTION_RESULT or DETECTION_ERROR.
AdvancedWorkerResponds ==
    /\ advancedInbox # <<>>
    /\ \E type \in {"DETECTION_RESULT", "DETECTION_ERROR"} :
         advancedOutbox' = Append(advancedOutbox,
                                  [type |-> type, request |-> Head(advancedInbox)])
    /\ advancedInbox' = Tail(advancedInbox)
    /\ UNCHANGED <<advancedCalls, advancedCallbacks>>
    /\ UNCHANGED <<ocrCalls, ocrCallbacks, ocrOutbox, progressCallback>>
    /\ UNCHANGED <<ppc, worker, workerMsg, callbackSet, timer, workerPromise, fuseRan,
                   aiSettled>>
    /\ UNCHANGED <<dedupVars, fusionVars, retryVars, detectVars>>

\* advancedWorker.onmessage: WORKER_READY is logged; any other message goes to
\* the first callback of the map, which is deleted.  The callback clears its
\* call's time-out and settles its call's promise.
AdvancedPoolOnMessage ==
    /\ advancedOutbox # <<>>
    /\ advancedOutbox' = Tail(advancedOutbox)
    /\ LET data == Head(advancedOutbox)
       IN IF data.type = "WORKER_READY" \/ advancedCallbacks = <<>>
          THEN UNCHANGED <<advancedCalls, advancedCallbacks>>
          ELSE LET id == Head(advancedCallbacks)
                   call == advancedCalls[id]
               IN /\ advancedCallbacks' = Tail(advancedCallbacks)
                  /\ advancedCalls' = [advancedCalls EXCEPT ![id] =
                        [ timer |-> IF call.timer = "armed" THEN "cleared" ELSE call.timer,
                          promise |-> IF call.promise # "pending" THEN call.promise
                                      ELSE IF data.type = "DETECTION_ERROR"
                                           THEN "rejected" ELSE "resolved",
                          settledBy |-> IF call.promise # "pending" THEN call.settledBy
                                        ELSE data.request ]]
    /\ UNCHANGED advancedInbox
    /\ UNCHANGED <<ocrCalls, ocrCallbacks, ocrOutbox, progressCallback>>
    /\ UNCHANGED <<ppc, worker, workerMsg, callbackSet, timer, workerPromise, fuseRan,
                   aiSettled>>
    /\ UNCHANGED <<dedupVars, fusionVars, retryVars, detectVars>>

\* The 30 s time-out of one call: its callback is deleted, its promise
\* rejected.
AdvancedCallTimeout ==
    /\ \E id \in 1..Len(advancedCalls) :
         /\ advancedCalls[id].timer = "armed"
         /\ advancedCallbacks' = SelectSeq(advancedCallbacks, LAMBDA k : k # id)
         /\ advancedCalls' = [advancedCalls EXCEPT ![id] =
               [ timer |-> "fired",
                 promise |-> IF @.promise = "pending" THEN "rejected" ELSE @.promise,
                 settledBy |-> @.settledBy ]]
    /\ UNCHANGED <<advancedInbox, advancedOutbox>>
    /\ UNCHANGED <<ocrCalls, ocrCallbacks, ocrOutbox, progressCallback>>
    /\ UNCHANGED <<ppc, worker, workerMsg, callbackSet, timer, workerPromise, fuseRan,
                   aiSettled>>
    /\ UNCHANGED <<dedupVars, fusionVars, retryVars, detectVars>>

SpecPool ==
    PoolInit /\ [][ \/ RunAdvancedDetection \/ AdvancedWorkerResponds
                    \/ AdvancedPoolOnMessage \/ AdvancedCallTimeout ]_vars

\* C27 (as stated): whatever the interleaving of calls, responses and
\* time-outs, a call's promise is settled by the response to its own request
\* or by its own time-out, never by the response to another call's request.
C27_OwnResponseOnly ==
    \A id \in 1..Len(advancedCalls) : advancedCalls[id].settledBy \in {0, id}

\* C27 witness: the first call timed out, and the late response to its
\* request resolved the promise of the second call.
C27_Witness ==
    /\ Len(advancedCalls) = 2
    /\ advancedCalls[1].timer = "fired" /\ advancedCalls[1].promise = "rejected"
    /\ advancedCalls[2].promise = "resolved" /\ advancedCalls[2].settledBy = 1

\* runOCR up to the return of the promise: the callback is registered and
\* OCR_START posted.
RunOCR ==
    /\ Len(ocrCalls) < MaxCalls
    /\ ocrCalls' = Append(ocrCalls, [promise |-> "pending", progress |-> 0, final |-> FALSE])
    /\ ocrCallbacks' = Append(ocrCallbacks, Len(ocrCalls) + 1)
    /\ UNCHANGED <<ocrOutbox, progressCallback>>
    /\ UNCHANGED <<advancedCalls, advancedCallbacks, advancedInbox, advancedOutbox>>
    /\ UNCHANGED <<ppc, worker, workerMsg, callbackSet, timer, workerPromise, fuseRan,
                   aiSettled>>
    /\ UNCHANGED <<dedupVars, fusionVars, retryVars, detectVars>>

\* self.onmessage of the OCR worker, between two of its awaits, for a request
\* it has not finished: it posts OCR_PROGRESS (before the preprocessing and
\* from the Tesseract logger), OCR_RESULT after at least one OCR_PROGRESS, or
\* OCR_ERROR from its catch block.
OcrWorkerPosts ==
    /\ \E id \in 1..Len(ocrCalls) :
         /\ ~ocrCalls[id].final
         /\ \E type \in {"OCR_PROGRESS", "OCR_RESULT", "OCR_ERROR"} :
              /\ type = "OCR_PROGRESS" => ocrCalls[id].progress < MaxProgress
              /\ type = "OCR_RESULT" => ocrCalls[id].progress >= 1
              /\ ocrOutbox' = Append(ocrOutbox, [type |-> type, request |-> id])
              /\ ocrCalls' = [ocrCalls EXCEPT ![id] =
                    IF type = "OCR_PROGRESS" THEN [@ EXCEPT !.progress = @ + 1]
                    ELSE [@ EXCEPT !.final = TRUE]]
    /\ UNCHANGED <<ocrCallbacks, progressCallback>>
    /\ UNCHANGED <<advancedCalls, advancedCallbacks, advancedInbox, advancedOutbox>>
    /\ UNCHANGED <<ppc, worker, workerMsg, callbackSet, timer, workerPromise, fuseRan,
                   aiSettled>>
    /\ UNCHANGED <<dedupVars, fusionVars, retryVars, detectVars>>

\* ocrWorker.onmessage: OCR_PROGRESS goes to the progress callback when one
\* is registered; any other message, and OCR_PROGRESS without a progress
\* callback, goes to the first callback of the map, which is deleted.  The
\* callback rejects on OCR_ERROR, resolves on OCR_RESULT and does nothing on
\* any other type.
OcrPoolOnMessage ==
    /\ ocrOutbox # <<>>
    /\ ocrOutbox' = Tail(ocrOutbox)
    /\ LET data == Head(ocrOutbox)
       IN IF (data.type = "OCR_PROGRESS" /\ progressCallback) \/ ocrCallbacks = <<>>
          THEN UNCHANGED <<ocrCalls, ocrCallbacks>>
          ELSE LET id == Head(ocrCallbacks)
               IN /\ ocrCallbacks' = Tail(ocrCallbacks)
                  /\ ocrCalls' = [ocrCalls EXCEPT ![id].promise =
                        IF @ # "pending" THEN @
                        ELSE CASE data.type = "OCR_ERROR" -> "rejected"
                               [] data.type = "OCR_RESULT" -> "resolved"
                               [] OTHER -> @]
    /\ UNCHANGED progressCallback
    /\ UNCHANGED <<advancedCalls, advancedCallbacks, advancedInbox, advancedOutbox>>
    /\ UNCHANGED <<ppc, worker, workerMsg, callbackSet, timer, workerPromise, fuseRan,
                   aiSettled>>
    /\ UNCHANGED <<dedupVars, fusionVars, retryVars, detectVars>>

\* The OCR worker goes on computing and the browser delivers posted messages.
SpecOcr ==
    /\ PoolInit
    /\ [][RunOCR \/ OcrWorkerPosts \/ OcrPoolOnMessage]_vars
    /\ WF_vars(OcrWorkerPosts) /\ WF_vars(OcrPoolOnMessage)

\* C28 (as stated): once the OCR worker has posted OCR_RESULT or OCR_ERROR
\* for a runOCR call, the call's promise eventually settles, with or without
\* a registered progress callback.
C28_OcrSettles ==
    \A id \in 1..MaxCalls :
        (Len(ocrCalls) >= id /\ ocrCalls[id].final)
            ~> (Len(ocrCalls) >= id /\ ocrCalls[id].promise # "pending")

\* C28 witness: without a progress callback, the worker posted OCR_PROGRESS
\* and its final message for the only call, both were delivered, the map of
\* callbacks is empty and the promise is still pending.
C28_Witness ==
    /\ ~progressCallback
    /\ Len(ocrCalls) = 1 /\ ocrCalls[1].final /\ ocrCalls[1].progress = 1
    /\ ocrOutbox = <<>> /\ ocrCallbacks = <<>>
    /\ ocrCalls[1].promise = "pending"

-----------------------------------------------------------------------------
(* The detectors.  A text is the sequence of its blank-separated tokens and *)
(* a position in it is a token index from 0; an OCR word's text is one     *)
(* token.  A joined string (a value, a line's text) is the sequence of the *)
(* joined tokens.  Regular expressions and dictionaries are given by the   *)
(* tokens of the vocabulary they match.                                    *)

MaxWords == 2
MaxTokens == 2

\* What a call does: it returns a value or throws.
Returned(v) == [threw |-> FALSE, value |-> v]
Threw == [threw |-> TRUE, value |-> <<>>]

\* String.prototype.toLowerCase on the vocabulary
ToLowerToken(t) ==
    CASE t = "Invoice" -> "invoice"
      [] t = "Name:" -> "name:"
      [] t = "Name" -> "name"
      [] t = "John" -> "john"
      [] t = "Smith" -> "smith"
      [] t = "Doe" -> "doe"
      [] t = "Road" -> "road"
      [] t = "ABCPE1234F" -> "abcpe1234f"
      [] t = "ABCXE1234F" -> "abcxe1234f"
      [] t = "ABCPEF" -> "abcpef"
      [] OTHER -> t

\* text.replace(/[^a-zA-Z]/g, '') on the vocabulary
LettersOnly(t) ==
    CASE t = "Name:" -> "Name"
      [] t = "name:" -> "name"
      [] t \in {"560001", "12/05/1990", ".", ",", "9876543210",
                "234567890123", "234567890124", "123456789012",
                "4111111111111111", "4111111111111112"} -> ""
      [] t = "a@b.in" -> "abin"
      [] t = "ABCPE1234F" -> "ABCPEF"
      [] t = "abcpe1234f" -> "abcpef"
      [] OTHER -> t

\* String.prototype.indexOf(needle, from): the first position at or after
\* from, or -1
indexOf(text, needle, from) ==
    LET hits == { k \in Max(from, 0)..(Len(text) - 1) : text[k + 1] = needle }
    IN IF hits = {} THEN -1 ELSE MinOf(hits)

\* ---- documentRouter: classifyDocument ------------------------------------

CandidateOrder ==
    << "invoice", "bank_statement", "medical_report", "tax_return",
       "id_card_aadhaar", "id_card_pan", "health_report" >>

\* The keywords of each dictionary that the vocabulary can spell, each a
\* sequence of words
KeywordsOf(type) ==
    CASE type = "invoice" -> {<<"invoice">>, <<"bill">>, <<"tax">>, <<"gst">>}
      [] type = "bank_statement" -> {<<"ifsc">>, <<"balance">>}
      [] type = "medical_report" -> {<<"patient">>, <<"diagnosis">>}
      [] type = "tax_return" -> {<<"income", "tax">>, <<"itr">>, <<"pan">>}
      [] type = "id_card_aadhaar" -> {<<"aadhaar">>, <<"uid">>, <<"dob">>, <<"male">>, <<"female">>}
      [] type = "id_card_pan" -> {<<"pan">>, <<"dob">>, <<"signature">>}
      [] OTHER -> {<<"allergies">>, <<"examination">>}

\* scoreDocumentType: lowerText.contains(keyword) finds a keyword anywhere in
\* the text, inside a longer word too; a keyword weighs its number of words.
scoreDocumentType(text, keywords) ==
    LET lowerText == [i \in 1..Len(text) |-> ToLowerToken(text[i])]
        contains(token, part) ==
            token = part \/ <<token, part>> = <<"female", "male">>
        matched == { k \in keywords :
                       \E i \in 1..(Len(lowerText) - Len(k) + 1) :
                           \A j \in 1..Len(k) : contains(lowerText[i + j - 1], k[j]) }
        RECURSIVE weigh(_)
        weigh(ks) == IF ks = {} THEN 0
                     ELSE LET k == CHOOSE x \in ks : TRUE IN Len(k) + weigh(ks \ {k})
    IN [score |-> weigh(matched), matched |-> matched]

\* A faulty classifier: the confidence is not capped.
classifyDocumentUncapped(fullText) ==
    LET score(i) == scoreDocumentType(fullText, KeywordsOf(CandidateOrder[i])).score
        RECURSIVE SumScores(_)
        SumScores(i) == IF i > Len(CandidateOrder) THEN 0 ELSE score(i) + SumScores(i + 1)
        top == CHOOSE i \in 1..Len(CandidateOrder) :
                  /\ \A j \in 1..Len(CandidateOrder) : score(j) <= score(i)
                  /\ \A j \in 1..(i - 1) : score(j) < score(i)
    IN IF score(top) = 0
       THEN [primaryType |-> "generic", confidence |-> <<0, 1>>, detectedKeywords |-> {}]
       ELSE [primaryType |-> CandidateOrder[top],
             confidence |-> <<score(top), SumScores(1)>>,
             detectedKeywords |->
                 scoreDocumentType(fullText, KeywordsOf(CandidateOrder[top])).matched]

\* classifyDocument: the stable sort by score descending puts first the
\* earliest candidate with the highest score.
classifyDocument(fullText) ==
    LET score(i) == scoreDocumentType(fullText, KeywordsOf(CandidateOrder[i])).score
        RECURSIVE SumScores(_)
        SumScores(i) == IF i > Len(CandidateOrder) THEN 0 ELSE score(i) + SumScores(i + 1)
        top == CHOOSE i \in 1..Len(CandidateOrder) :
                  /\ \A j \in 1..Len(CandidateOrder) : score(j) <= score(i)
                  /\ \A j \in 1..(i - 1) : score(j) < score(i)
        totalScore == SumScores(1)
    IN IF score(top) = 0
       THEN [primaryType |-> "generic", confidence |-> <<0, 1>>, detectedKeywords |-> {}]
       ELSE [primaryType |-> CandidateOrder[top],
             confidence |-> IF score(top) * 100 > 95 * totalScore
                            THEN <<95, 100>> ELSE <<score(top), totalScore>>,
             detectedKeywords |->
                 scoreDocumentType(fullText, KeywordsOf(CandidateOrder[top])).matched]

\* ---- regex.ts and layer1: runLayer1Detection -----------------------------

\* The decimal digits of a token made of digits only (what
\* replace(/\D/g, '') leaves of it); no digit for any other token
Digits(t) ==
    CASE t = "234567890123" -> <<2, 3, 4, 5, 6, 7, 8, 9, 0, 1, 2, 3>>
      [] t = "234567890124" -> <<2, 3, 4, 5, 6, 7, 8, 9, 0, 1, 2, 4>>
      [] t = "123456789012" -> <<1, 2, 3, 4, 5, 6, 7, 8, 9, 0, 1, 2>>
      [] t = "4111111111111111" -> <<4, 1, 1, 1, 1, 1, 1, 1, 1, 1, 1, 1, 1, 1, 1, 1>>
      [] t = "4111111111111112" -> <<4, 1, 1, 1, 1, 1, 1, 1, 1, 1, 1, 1, 1, 1, 1, 2>>
      [] t = "9876543210" -> <<9, 8, 7, 6, 5, 4, 3, 2, 1, 0>>
      [] t = "560001" -> <<5, 6, 0, 0, 0, 1>>
      [] t = "000001" -> <<0, 0, 0, 0, 0, 1>>
      [] OTHER -> <<>>

\* A faulty check: any twelve digits pass.
verhoeffValidateLengthOnly(num) == Len(Digits(num)) = 12

\* verhoeffValidate, with its multiplication and permutation tables
verhoeffValidate(num) ==
    LET verhoeffMultiplication ==
            << <<0, 1, 2, 3, 4, 5, 6, 7, 8, 9>>,
               <<1, 2, 3, 4, 0, 6, 7, 8, 9, 5>>,
               <<2, 3, 4, 0, 1, 7, 8, 9, 5, 6>>,
               <<3, 4, 0, 1, 2, 8, 9, 5, 6, 7>>,
               <<4, 0, 1, 2, 3, 9, 5, 6, 7, 8>>,
               <<5, 9, 8, 7, 6, 0, 4, 3, 2, 1>>,
               <<6, 5, 9, 8, 7, 1, 0, 4, 3, 2>>,
               <<7, 6, 5, 9, 8, 2, 1, 0, 4, 3>>,
               <<8, 7, 6, 5, 9, 3, 2, 1, 0, 4>>,
               <<9, 8, 7, 6, 5, 4, 3, 2, 1, 0>> >>
        verhoeffPermutation ==
            << <<0, 1, 2, 3, 4, 5, 6, 7, 8, 9>>,
               <<1, 5, 7, 6, 2, 8, 3, 0, 9, 4>>,
               <<5, 8, 0, 3, 7, 9, 6, 1, 4, 2>>,
               <<8, 9, 1, 6, 0, 4, 3, 5, 2, 7>>,
               <<9, 4, 5, 3, 1, 2, 6, 8, 7, 0>>,
               <<4, 2, 8, 6, 5, 7, 3, 9, 0, 1>>,
               <<2, 7, 9, 3, 8, 0, 6, 4, 1, 5>>,
               <<7, 0, 4, 6, 9, 1, 3, 2, 5, 8>> >>
        digits == Digits(num)
        len == Len(digits)
        \* c after the loop iterations i, i + 1, ..., len - 1
        RECURSIVE Loop(_, _)
        Loop(i, c) ==
            IF i >= len THEN c
            ELSE LET digit == digits[len - i]
                     perm == verhoeffPermutation[(i % 8) + 1][digit + 1]
                 IN Loop(i + 1, verhoeffMultiplication[c + 1][perm + 1])
    IN len = 12 /\ Loop(0, 0) = 0

luhnValidate(num) ==
    LET digits == Digits(num)
        \* sum after the loop iterations from index i (counted from 1) down
        RECURSIVE Loop(_, _, _)
        Loop(i, sum, alternate) ==
            IF i < 1 THEN sum
            ELSE LET doubled == digits[i] * 2
                     n == IF ~alternate THEN digits[i]
                          ELSE IF doubled > 9 THEN doubled - 9 ELSE doubled
                 IN Loop(i - 1, sum + n, ~alternate)
    IN Len(digits) >= 13 /\ Len(digits) <= 19 /\ Loop(Len(digits), 0, FALSE) % 10 = 0

\* Tokens matched by PAN_REGEX
PanShaped == {"ABCPE1234F", "ABCXE1234F"}

\* panValidate: the shape, then the entity letter pan[3]
panValidate(pan) ==
    LET fourth == IF pan = "ABCPE1234F" THEN "P" ELSE "X"
    IN pan \in PanShaped /\ fourth \in {"A", "B", "C", "F", "G", "H", "L", "J", "P", "T"}

\* The matches of one regular expression, in text order
findMatches(text, shaped, type) ==
    LET at == { i \in 1..Len(text) : text[i] \in shaped }
        nth(k) == CHOOSE i \in at : Cardinality({j \in at : j < i}) = k - 1
    IN [k \in 1..Cardinality(at) |->
           [type |-> type, value |-> text[nth(k)], startIndex |-> nth(k) - 1,
            endIndex |-> nth(k), raw |-> text[nth(k)]]]

\* findAadhaar, findPAN, findCreditCards and findPhoneNumbers, in this order.
\* A token of digits is matched by AADHAAR_REGEX when it has 12 digits (and
\* kept unless it starts with 0 or 1) and by CREDIT_CARD_REGEX when it has 13
\* to 19.  PHONE_REGEX has no leading \b: it matches the last ten digits of
\* a token when they start with 6 to 9, which in the vocabulary happens for
\* ten-digit tokens only.  The vocabulary has no token of one to seven digits
\* next to a longer one, so no match spans two tokens.
findAllRegexMatches(text) ==
    LET tokens == Range(text)
        aadhaar == { t \in tokens : Len(Digits(t)) = 12 /\ Digits(t)[1] \notin {0, 1} }
        cards == { t \in tokens : Len(Digits(t)) >= 13 /\ Len(Digits(t)) <= 19 }
        phones == { t \in tokens : /\ Len(Digits(t)) >= 10
                                   /\ Digits(t)[Len(Digits(t)) - 9] \in 6..9 }
    IN findMatches(text, aadhaar, "AADHAAR") \o findMatches(text, PanShaped, "PAN")
       \o findMatches(text, cards, "CREDIT_CARD") \o findMatches(text, phones, "PHONE")

\* mapTextToBBox: the box of the words overlapping the match (MatchingWords
\* is the loop from word i on), or the placeholder box.  The loop counts in
\* characters: length is String.length on the vocabulary, offset(k) the
\* character index of token k, and a word that indexOf does not find (-1)
\* still ends at -1 + its length.
mapTextToBBox(startIdx, endIdx, fullText, wordList, pageIndex) ==
    LET length(t) ==
            CASE t \in {"4111111111111111", "4111111111111112"} -> 16
              [] t \in {"234567890123", "234567890124", "123456789012"} -> 12
              [] t \in {"ABCPE1234F", "ABCXE1234F", "9876543210", "12/05/1990"} -> 10
              [] t = "diabetes" -> 8
              [] t = "Invoice" -> 7
              [] t \in {"560001", "000001", "a@b.in"} -> 6
              [] t \in {"Name:", "Smith"} -> 5
              [] t \in {"John", "Road"} -> 4
              [] t = "Doe" -> 3
              [] OTHER -> 1
        RECURSIVE offset(_)
        offset(k) == IF k = 0 THEN 0 ELSE offset(k - 1) + length(fullText[k]) + 1
        start == offset(startIdx)
        end == offset(endIdx - 1) + length(fullText[endIdx])
        RECURSIVE MatchingWords(_, _)
        MatchingWords(i, currentPos) ==
            IF i > Len(wordList) THEN <<>>
            ELSE LET word == wordList[i]
                     hits == { k \in 0..(Len(fullText) - 1) :
                                 fullText[k + 1] = word.text /\ offset(k) >= currentPos }
                     wordStart == IF hits = {} THEN -1 ELSE offset(MinOf(hits))
                     wordEnd == wordStart + length(word.text)
                     here == IF wordEnd > start /\ wordStart < end
                             THEN <<word>> ELSE <<>>
                 IN IF wordStart > end THEN here
                    ELSE here \o MatchingWords(i + 1, wordEnd)
        matchingWords == MatchingWords(1, 0)
        ws == Range(matchingWords)
    IN IF Len(matchingWords) = 0
       THEN BBox(0, 0, 100, 20, pageIndex)
       ELSE LET minX == MinOf({w.bbox.x : w \in ws})
                minY == MinOf({w.bbox.y : w \in ws})
                maxX == MaxOf({w.bbox.x + w.bbox.w : w \in ws})
                maxY == MaxOf({w.bbox.y + w.bbox.h : w \in ws})
            IN BBox(minX, minY, maxX - minX, maxY - minY, pageIndex)

\* confidence after the switch on match.type
Layer1Confidence(match) ==
    CASE match.type = "AADHAAR" -> IF verhoeffValidate(match.value) THEN ONE ELSE 60000
      [] match.type = "CREDIT_CARD" -> IF luhnValidate(match.value) THEN ONE ELSE 50000
      [] match.type = "PAN" -> IF panValidate(match.value) THEN ONE ELSE 70000
      [] match.type = "PHONE" -> 90000
      [] OTHER -> 85000

runLayer1Detection(fullText, wordList, pageIndex) ==
    LET regexMatches == findAllRegexMatches(fullText)
        valid(m) == CASE m.type = "AADHAAR" -> verhoeffValidate(m.value)
                      [] m.type = "CREDIT_CARD" -> luhnValidate(m.value)
                      [] m.type = "PAN" -> panValidate(m.value)
                      [] OTHER -> TRUE
        emitted == SelectSeq(regexMatches,
                       LAMBDA m : ~(~valid(m) /\ Layer1Confidence(m) < 50000))
    IN [k \in 1..Len(emitted) |->
           Entity(<<"l1", k>>, emitted[k].type, <<emitted[k].raw>>,
                  Layer1Confidence(emitted[k]),
                  mapTextToBBox(emitted[k].startIndex, emitted[k].endIndex,
                                fullText, wordList, pageIndex),
                  1)]

\* ---- spatialMapper: lines and blocks -------------------------------------

\* createTextLine keeping the first word of the line only
createTextLineFirstWord(ws) ==
    [ words |-> <<ws[1]>>,
      y |-> <<ws[1].bbox.y, 1>>,
      x |-> ws[1].bbox.x,
      width |-> ws[1].bbox.w,
      height |-> ws[1].bbox.h,
      text |-> <<ws[1].text>> ]

createTextLine(ws) ==
    LET RECURSIVE SumY(_)
        SumY(i) == IF i > Len(ws) THEN 0 ELSE ws[i].bbox.y + SumY(i + 1)
    IN [ words |-> ws,
         y |-> <<SumY(1), Len(ws)>>,
         x |-> MinOf({ws[i].bbox.x : i \in 1..Len(ws)}),
         width |-> MaxOf({ws[i].bbox.x + ws[i].bbox.w : i \in 1..Len(ws)})
                   - MinOf({ws[i].bbox.x : i \in 1..Len(ws)}),
         height |-> MaxOf({ws[i].bbox.h : i \in 1..Len(ws)}),
         text |-> [i \in 1..Len(ws) |-> ws[i].text] ]

\* groupWordsIntoLines after its guard.  medianHeight is
\* heights.sort((a, b) => a - b)[Math.floor(heights.length / 2)] || 20 and
\* yTolerance medianHeight * 0.5; sorted is [...words].sort(comparator);
\* LinesFrom is the grouping loop from sorted[i] on and the push of the last
\* line.  On an empty list sorted[0] is undefined and createTextLine reads a
\* property of it: a TypeError.
GroupSortedWords(wordList) ==
    LET RECURSIVE InsertNum(_, _)
        InsertNum(x, s) ==
            IF Len(s) = 0 THEN <<x>>
            ELSE IF s[Len(s)] > x
                 THEN Append(InsertNum(x, SubSeq(s, 1, Len(s) - 1)), s[Len(s)])
                 ELSE Append(s, x)
        RECURSIVE SortNums(_)
        SortNums(s) ==
            IF Len(s) = 0 THEN <<>>
            ELSE InsertNum(s[Len(s)], SortNums(SubSeq(s, 1, Len(s) - 1)))
        heights == SortNums([i \in 1..Len(wordList) |-> wordList[i].bbox.h])
        medianHeight == IF Len(heights) = 0 \/ heights[(Len(heights) \div 2) + 1] = 0
                        THEN 20 ELSE heights[(Len(heights) \div 2) + 1]
        compare(a, b) ==
            LET yDiff == a.bbox.y - b.bbox.y
            IN IF 2 * Abs(yDiff) < medianHeight THEN a.bbox.x - b.bbox.x ELSE yDiff
        RECURSIVE InsertWord(_, _)
        InsertWord(x, s) ==
            IF Len(s) = 0 THEN <<x>>
            ELSE IF compare(s[Len(s)], x) > 0
                 THEN Append(InsertWord(x, SubSeq(s, 1, Len(s) - 1)), s[Len(s)])
                 ELSE Append(s, x)
        RECURSIVE SortWords(_)
        SortWords(s) ==
            IF Len(s) = 0 THEN <<>>
            ELSE InsertWord(s[Len(s)], SortWords(SubSeq(s, 1, Len(s) - 1)))
        sorted == SortWords(wordList)
        RECURSIVE LinesFrom(_, _)
        LinesFrom(i, currentLine) ==
            IF i > Len(sorted) THEN <<createTextLine(currentLine)>>
            ELSE IF 2 * Abs(sorted[i].bbox.y - sorted[i - 1].bbox.y) < medianHeight
                 THEN LinesFrom(i + 1, Append(currentLine, sorted[i]))
                 ELSE <<createTextLine(currentLine)>> \o LinesFrom(i + 1, <<sorted[i]>>)
    IN IF Len(sorted) = 0 THEN Threw
       ELSE Returned(LinesFrom(2, <<sorted[1]>>))

\* groupWordsIntoLines without its first line
groupWordsIntoLinesUnguarded(wordList) == GroupSortedWords(wordList)

groupWordsIntoLines(wordList) ==
    IF Len(wordList) = 0 THEN Returned(<<>>) ELSE GroupSortedWords(wordList)

\* groupLinesIntoBlocks: rational numbers <<n, d>> with d > 0 for averages
\* and tolerances (FAdd, FSub), createTextBlock, the lines sorted by y, the average spacing
\* (spacings.reduce(...) / spacings.length || 20 : NaN and 0 give 20) and the
\* block loop from sorted[i] on; blockThreshold is avgSpacing * 2.5
groupLinesIntoBlocks(ls, pageIndex) ==
    LET FAdd(a, b) == <<a[1] * b[2] + b[1] * a[2], a[2] * b[2]>>
        FSub(a, b) == <<a[1] * b[2] - b[1] * a[2], a[2] * b[2]>>
        createTextBlock(lines) ==
            LET idx == 1..Len(lines)
                minY == CHOOSE y \in {lines[i].y : i \in idx} :
                            \A i \in idx : ~FracGT(y, lines[i].y)
                bottomEdge(i) == FAdd(lines[i].y, <<lines[i].height, 1>>)
                maxBottom == CHOOSE b \in {bottomEdge(i) : i \in idx} :
                                 \A i \in idx : ~FracGT(bottomEdge(i), b)
            IN [ lines |-> lines,
                 bbox |-> [ x |-> MinOf({lines[i].x : i \in idx}),
                            y |-> minY,
                            w |-> MaxOf({lines[i].x + lines[i].width : i \in idx})
                                  - MinOf({lines[i].x : i \in idx}),
                            h |-> FSub(maxBottom, minY),
                            pageIndex |-> pageIndex ],
                 text |-> [i \in idx |-> lines[i].text] ]
        RECURSIVE InsertLine(_, _)
        InsertLine(x, s) ==
            IF Len(s) = 0 THEN <<x>>
            ELSE IF FracGT(s[Len(s)].y, x.y)
                 THEN Append(InsertLine(x, SubSeq(s, 1, Len(s) - 1)), s[Len(s)])
                 ELSE Append(s, x)
        RECURSIVE SortLines(_)
        SortLines(s) ==
            IF Len(s) = 0 THEN <<>>
            ELSE InsertLine(s[Len(s)], SortLines(SubSeq(s, 1, Len(s) - 1)))
        sorted == SortLines(ls)
        gap(prevLine, currLine) ==
            FSub(currLine.y, FAdd(prevLine.y, <<prevLine.height, 1>>))
        RECURSIVE SumGaps(_)
        SumGaps(i) ==
            IF i >= Len(sorted) THEN <<0, 1>>
            ELSE FAdd(gap(sorted[i], sorted[i + 1]), SumGaps(i + 1))
        total == SumGaps(1)
        avgSpacing == IF Len(sorted) <= 1 \/ total[1] = 0 THEN <<20, 1>>
                      ELSE <<total[1], total[2] * (Len(sorted) - 1)>>
        RECURSIVE BlocksFrom(_, _)
        BlocksFrom(i, currentBlock) ==
            IF i > Len(sorted) THEN <<createTextBlock(currentBlock)>>
            ELSE LET g == gap(sorted[i - 1], sorted[i])
                 IN IF FracGT(<<g[1] * 2, g[2]>>, <<avgSpacing[1] * 5, avgSpacing[2]>>)
                    THEN <<createTextBlock(currentBlock)>>
                         \o BlocksFrom(i + 1, <<sorted[i]>>)
                    ELSE BlocksFrom(i + 1, Append(currentBlock, sorted[i]))
    IN IF Len(ls) = 0 THEN Returned(<<>>)
       ELSE Returned(BlocksFrom(2, <<sorted[1]>>))

\* ---- spatialMapper: key-value pairs and table columns --------------------

NullKey == [null |-> TRUE]

\* matchKeyPattern on the vocabulary: the first KEY_PATTERNS entry matching
\* the trimmed text
matchKeyPattern(text) ==
    CASE text \in {"Name:", "Name", "name:"} -> [type |-> "NAME", confidence |-> 99000]
      [] text \in {"Phone:", "Mobile"} -> [type |-> "PHONE", confidence |-> 97000]
      [] text \in {"PAN:", "pan"} -> [type |-> "PAN", confidence |-> 99000]
      [] OTHER -> NullKey

\* A faulty extraction: every word after the key is taken as the value.
extractValueToRightAll(ws, keyPosition) == SubSeq(ws, keyPosition + 1, Len(ws))

\* extractValueToRight: ValueLoop is its loop from words[i] on (i counts
\* from 1); /^[.,:;!?]+$/ is given by the vocabulary's punctuation tokens
extractValueToRight(ws, keyPosition) ==
    LET RECURSIVE ValueLoop(_, _)
        ValueLoop(i, valueWords) ==
            IF i > Len(ws) THEN valueWords
            ELSE LET word == ws[i]
                     prevWord == valueWords[Len(valueWords)]
                 IN IF matchKeyPattern(word.text) # NullKey THEN valueWords
                    ELSE IF word.text \in {".", ",", ":", ";"}
                         THEN IF Len(valueWords) > 0 THEN valueWords
                              ELSE ValueLoop(i + 1, valueWords)
                    ELSE IF Len(valueWords) > 0
                            /\ word.bbox.x - (prevWord.bbox.x + prevWord.bbox.w)
                                   > prevWord.bbox.w * 2
                         THEN valueWords
                    ELSE IF Len(valueWords) + 1 >= 15 THEN Append(valueWords, word)
                    ELSE ValueLoop(i + 1, Append(valueWords, word))
    IN ValueLoop(keyPosition + 1, <<>>)

\* detectKeyValuePairs: PairsInLine is the inner loop over one line from
\* words[i] on, PairsOf the outer loop over the lines
detectKeyValuePairs(ls, pageIndex) ==
    LET calculateBBox(ws) ==
            IF Len(ws) = 0 THEN BBox(0, 0, 0, 0, pageIndex)
            ELSE LET idx == 1..Len(ws)
                     minX == MinOf({ws[i].bbox.x : i \in idx})
                     minY == MinOf({ws[i].bbox.y : i \in idx})
                 IN BBox(minX, minY,
                         MaxOf({ws[i].bbox.x + ws[i].bbox.w : i \in idx}) - minX,
                         MaxOf({ws[i].bbox.y + ws[i].bbox.h : i \in idx}) - minY,
                         pageIndex)
        RECURSIVE PairsInLine(_, _)
        PairsInLine(line, i) ==
            IF i > Len(line.words) THEN <<>>
            ELSE LET word == line.words[i]
                     keyMatch == matchKeyPattern(word.text)
                     valueWords == IF keyMatch = NullKey THEN <<>>
                                   ELSE extractValueToRight(line.words, i)
                 IN IF Len(valueWords) > 0
                    THEN << [ key |-> <<word>>, value |-> valueWords,
                              keyText |-> word.text,
                              valueText |-> [k \in 1..Len(valueWords) |-> valueWords[k].text],
                              confidence |-> keyMatch.confidence, type |-> keyMatch.type,
                              bbox |-> calculateBBox(<<word>> \o valueWords) ] >>
                         \o PairsInLine(line, i + Len(valueWords) + 1)
                    ELSE PairsInLine(line, i + 1)
        RECURSIVE PairsOf(_)
        PairsOf(rest) ==
            IF Len(rest) = 0 THEN <<>>
            ELSE PairsInLine(Head(rest), 1) \o PairsOf(Tail(rest))
    IN PairsOf(ls)

\* A faulty conversion: the entities get the NLP layer.
keyValuePairsToEntitiesLayer2(pairs) ==
    [k \in 1..Len(pairs) |->
        Entity(<<"kv", k>>, pairs[k].type, pairs[k].valueText, pairs[k].confidence,
               pairs[k].bbox, 2)]

keyValuePairsToEntities(pairs) ==
    [k \in 1..Len(pairs) |->
        Entity(<<"kv", k>>, pairs[k].type, pairs[k].valueText, pairs[k].confidence,
               pairs[k].bbox, 3)]

\* detectTableStructure: ColumnsAfter is the column map after the words ws
\* of the lines; xTolerance is 15
detectTableStructure(ls) ==
    LET RECURSIVE WordsOfLines(_)
        WordsOfLines(rest) ==
            IF Len(rest) = 0 THEN <<>> ELSE Head(rest).words \o WordsOfLines(Tail(rest))
        RECURSIVE ColumnsAfter(_, _)
        ColumnsAfter(ws, columns) ==
            IF Len(ws) = 0 THEN columns
            ELSE LET word == Head(ws)
                     found == { c \in 1..Len(columns) :
                                  Abs(word.bbox.x - columns[c].x) < 15 }
                 IN ColumnsAfter(Tail(ws),
                        IF found = {}
                        THEN Append(columns, [x |-> word.bbox.x, words |-> <<word>>])
                        ELSE [columns EXCEPT ![MinOf(found)].words = Append(@, word)])
        columns == ColumnsAfter(WordsOfLines(ls), <<>>)
        nth(k) == CHOOSE c \in 1..Len(columns) :
                     Cardinality({d \in 1..Len(columns) : columns[d].x < columns[c].x}) = k - 1
    IN [k \in 1..Len(columns) |-> [columnIndex |-> k - 1, words |-> columns[nth(k)].words]]

\* ---- the heuristic detectors (nlp.worker and the advanced worker) --------

\* The dictionary entries the vocabulary can spell
COMMON_FIRST_NAMES == {"john", "rahul", "sharma"}
COMMON_LAST_NAMES == {"smith", "sharma"}
MEDICAL_TERMS == {"diabetes", "patient", "HIV"}
MEDICAL_TERMS_TWO == {<<"blood", "pressure">>, <<"heart", "disease">>}
ADDRESS_KEYWORDS == {"road", "street", "nagar", "pin"}
INDIAN_STATES == << <<"kerala">>, <<"tamil", "nadu">> >>

\* words[i].text.replace(/[^a-zA-Z]/g, '').toLowerCase()
NameKey(word) == ToLowerToken(LettersOnly(word.text))

IsName(word) == NameKey(word) \in COMMON_FIRST_NAMES \cup COMMON_LAST_NAMES

\* detectNamesHeuristic of the advanced worker; NamesFrom is its loop from
\* words[i] on
detectNamesHeuristic(ws) ==
    LET RECURSIVE NamesFrom(_)
        NamesFrom(i) ==
            IF i > Len(ws) THEN <<>>
            ELSE IF NameKey(ws[i]) = "" \/ ~IsName(ws[i]) THEN NamesFrom(i + 1)
            ELSE LET two == i + 1 <= Len(ws) /\ IsName(ws[i + 1])
                     last == IF two THEN i + 1 ELSE i
                 IN << Entity(<<"nlp", "name", i>>, "NAME",
                              [k \in 1..(last - i + 1) |-> ws[i + k - 1].text],
                              IF two THEN 78000 ELSE 65000,
                              [ws[i].bbox EXCEPT !.w = IF two
                                   THEN (ws[last].bbox.x + ws[last].bbox.w) - ws[i].bbox.x
                                   ELSE @],
                              2) >>
                    \o NamesFrom(last + 1)
    IN NamesFrom(1)

\* detectNames of nlp.worker; NamesFrom is its loop from words[i] on and
\* startsUpper is text[0]?.match(/[A-Z]/) on the vocabulary
detectNames(ws) ==
    LET startsUpper(text) ==
            text \in {"Name:", "Name", "John", "Road", "Invoice", "ABCPE1234F", "HIV"}
        RECURSIVE NamesFrom(_)
        NamesFrom(i) ==
            IF i > Len(ws) THEN <<>>
            ELSE IF NameKey(ws[i]) = "" \/ ~IsName(ws[i]) THEN NamesFrom(i + 1)
            ELSE LET two == i + 1 <= Len(ws) /\ IsName(ws[i + 1])
                     second == IF two THEN i + 1 ELSE i
                     three == second + 1 <= Len(ws)
                              /\ NameKey(ws[second + 1]) \in COMMON_LAST_NAMES
                     last == IF three THEN second + 1 ELSE second
                     fullName == [k \in 1..(last - i + 1) |-> ws[i + k - 1].text]
                     base == IF three THEN 88000 ELSE IF two THEN 82000 ELSE 65000
                     capital == startsUpper(ws[last - (Len(fullName) - 1)].text)
                 IN << Entity(<<"nlp", "name", i>>, "NAME", fullName,
                              Min(base + (IF capital THEN 5000 ELSE 0), 95000),
                              [ws[i].bbox EXCEPT !.w = IF last > i
                                   THEN (ws[last].bbox.x + ws[last].bbox.w) - ws[i].bbox.x
                                   ELSE @],
                              2) >>
                    \o NamesFrom(last + 1)
    IN NamesFrom(1)

\* findWordIndexForPosition: WordIndexFrom is its loop from words[i] on; -1
\* when no word is found at the position
findWordIndexForPosition(ws, charPos, text) ==
    LET RECURSIVE WordIndexFrom(_, _)
        WordIndexFrom(i, currentPos) ==
            IF i > Len(ws) THEN -1
            ELSE LET wordStart == indexOf(text, ws[i].text, currentPos)
                 IN IF wordStart <= charPos /\ charPos < wordStart + 1 THEN i - 1
                    ELSE WordIndexFrom(i + 1, wordStart + 1)
    IN WordIndexFrom(1, 0)

\* detectAddresses.  PinAddressesFrom is the PIN-code loop over the matches
\* of /\b\d{6}\b/ from position p on (pinValue is parseInt of the match);
\* StateAddresses gives the windows of the word list spelling one state name.
detectAddresses(ws) ==
    LET text == [i \in 1..Len(ws) |-> ToLowerToken(ws[i].text)]
        pinValue(t) == IF t = "560001" THEN 560001 ELSE 1
        RECURSIVE PinAddressesFrom(_)
        PinAddressesFrom(p) ==
            IF p > Len(text) THEN <<>>
            ELSE LET wordIndex == findWordIndexForPosition(ws, p - 1, text)
                     start == Max(0, wordIndex - 8)
                     addressWords == SubSeq(ws, start + 1, wordIndex + 1)
                     hasAddressKeyword ==
                         \E k \in 1..Len(addressWords) :
                             LettersOnly(ToLowerToken(addressWords[k].text))
                                 \in ADDRESS_KEYWORDS
                     idx == 1..Len(addressWords)
                     minY == MinOf({addressWords[k].bbox.y : k \in idx})
                     firstWord == addressWords[1]
                     lastWord == addressWords[Len(addressWords)]
                 IN (IF /\ text[p] \in {"560001", "000001"}
                        /\ pinValue(text[p]) >= 110001 /\ pinValue(text[p]) <= 855117
                        /\ wordIndex >= 0
                        /\ (hasAddressKeyword \/ Len(addressWords) >= 3)
                     THEN << Entity(<<"nlp", "pin", p>>, "ADDRESS",
                                    [k \in idx |-> addressWords[k].text],
                                    IF hasAddressKeyword THEN 78000 ELSE 55000,
                                    BBox(firstWord.bbox.x, minY,
                                         (lastWord.bbox.x + lastWord.bbox.w)
                                             - firstWord.bbox.x,
                                         MaxOf({addressWords[k].bbox.y
                                                    + addressWords[k].bbox.h : k \in idx})
                                             - minY,
                                         firstWord.bbox.pageIndex),
                                    2) >>
                     ELSE <<>>)
                    \o PinAddressesFrom(p + 1)
        StateAddresses(state) ==
            LET n == Len(state)
                hits == { i \in 1..(Len(ws) - n + 1) :
                            \A k \in 1..n : ToLowerToken(ws[i + k - 1].text) = state[k] }
                nth(k) == CHOOSE i \in hits : Cardinality({j \in hits : j < i}) = k - 1
            IN [k \in 1..Cardinality(hits) |->
                   Entity(<<"nlp", "state", nth(k)>>, "ADDRESS",
                          [j \in 1..n |-> ws[nth(k) + j - 1].text], 72000,
                          BBox(ws[nth(k)].bbox.x, ws[nth(k)].bbox.y,
                               (ws[nth(k) + n - 1].bbox.x + ws[nth(k) + n - 1].bbox.w)
                                   - ws[nth(k)].bbox.x,
                               Max(ws[nth(k)].bbox.h, ws[nth(k) + n - 1].bbox.h),
                               ws[nth(k)].bbox.pageIndex),
                          2)]
        RECURSIVE StateAddressesFrom(_)
        StateAddressesFrom(s) ==
            IF s > Len(INDIAN_STATES) THEN <<>>
            ELSE StateAddresses(INDIAN_STATES[s]) \o StateAddressesFrom(s + 1)
    IN PinAddressesFrom(1) \o StateAddressesFrom(1)

\* detectMedical; MedicalFrom is its loop from words[i] on
detectMedical(ws) ==
    LET RECURSIVE MedicalFrom(_)
        MedicalFrom(i) ==
            IF i > Len(ws) THEN <<>>
            ELSE LET one == LettersOnly(ToLowerToken(ws[i].text)) \in MEDICAL_TERMS
                            \/ ws[i].text \in MEDICAL_TERMS
                     two == i + 1 <= Len(ws)
                            /\ <<ToLowerToken(ws[i].text), ToLowerToken(ws[i + 1].text)>>
                               \in MEDICAL_TERMS_TWO
                 IN (IF one THEN << Entity(<<"nlp", "med", i>>, "MEDICAL", <<ws[i].text>>,
                                           75000, ws[i].bbox, 2) >>
                     ELSE <<>>)
                    \o (IF two
                        THEN << Entity(<<"nlp", "med2", i>>, "MEDICAL",
                                       <<ws[i].text, ws[i + 1].text>>, 80000,
                                       BBox(ws[i].bbox.x, ws[i].bbox.y,
                                            (ws[i + 1].bbox.x + ws[i + 1].bbox.w)
                                                - ws[i].bbox.x,
                                            Max(ws[i].bbox.h, ws[i + 1].bbox.h),
                                            ws[i].bbox.pageIndex),
                                       2) >>
                        ELSE <<>>)
                    \o MedicalFrom(IF two THEN i + 2 ELSE i + 1)
    IN MedicalFrom(1)

\* detectEmail; emailRegex is given by the vocabulary's one address
detectEmail(ws) ==
    LET hits == { i \in 1..Len(ws) : ws[i].text \in {"a@b.in"} }
        nth(k) == CHOOSE i \in hits : Cardinality({j \in hits : j < i}) = k - 1
    IN [k \in 1..Cardinality(hits) |->
           Entity(<<"nlp", "email", nth(k)>>, "EMAIL", <<ws[nth(k)].text>>, 95000,
                  ws[nth(k)].bbox, 2)]

\* detectDOB.  DobFrom is its loop over the matches of dateRegex from
\* position p on, dateParts the three groups of a match.  The context test
\* looks for a key word among the tokens before the date (the model's texts
\* are shorter than the 30 characters the code looks back).  The date is one
\* token, so the span loop collects the one word found at its position.
detectDOB(ws) ==
    LET text == [i \in 1..Len(ws) |-> ws[i].text]
        dateParts(t) ==
            [day |-> 12, month |-> 5, year |-> IF t = "12/05/1990" THEN 1990 ELSE 2020]
        RECURSIVE DobFrom(_)
        DobFrom(p) ==
            IF p > Len(text) THEN <<>>
            ELSE LET parts == dateParts(text[p])
                     isDOB == \E q \in 1..(p - 1) :
                                  ToLowerToken(text[q]) \in {"dob", "born", "birthday"}
                     wordIndex == findWordIndexForPosition(ws, p - 1, text)
                     firstW == ws[wordIndex + 1]
                 IN (IF /\ text[p] \in {"12/05/1990", "12/05/2020"}
                        /\ parts.day >= 1 /\ parts.day <= 31
                        /\ parts.month >= 1 /\ parts.month <= 12
                        /\ parts.year >= 1920 /\ parts.year <= 2010
                        /\ wordIndex >= 0
                     THEN << Entity(<<"nlp", "dob", p>>, "DOB", <<text[p]>>,
                                    IF isDOB THEN 90000 ELSE 60000,
                                    BBox(firstW.bbox.x, firstW.bbox.y,
                                         (firstW.bbox.x + firstW.bbox.w) - firstW.bbox.x,
                                         firstW.bbox.h, firstW.bbox.pageIndex),
                                    2) >>
                     ELSE <<>>)
                    \o DobFrom(p + 1)
    IN DobFrom(1)

-----------------------------------------------------------------------------
(* The detectors called one at a time on a text and a word list            *)

\* The request: a full text and a word list over a small vocabulary
DetectInit ==
    /\ ocrText \in SeqUpTo({"ABCPE1234F", "Invoice"}, MaxTokens)
    /\ ocrWords \in SeqUpTo(
           { Word("Name:", 0, 0, 30, 10), Word("John", 34, 0, 20, 10),
             Word("ABCPE1234F", 0, 40, 50, 10), Word("a@b.in", 0, 80, 30, 12),
             Word("diabetes", 200, 80, 40, 10), Word("Road", 60, 120, 24, 10),
             Word("560001", 90, 120, 36, 10), Word("12/05/1990", 0, 160, 50, 10) },
           MaxWords)
    /\ detector = "none" /\ inputSize = 0 /\ geminiItems = <<>>
    /\ output = Returned(<<>>)
    /\ DedupIdle /\ FusionIdle /\ RetryIdle /\ PipeIdle

DetectFrame ==
    UNCHANGED <<ocrText, ocrWords, geminiItems, dedupVars, fusionVars, retryVars, pipeVars>>

\* The lines the advanced worker hands to the line detectors
OcrLines == groupWordsIntoLines(ocrWords).value

ClassifyDocument ==
    /\ detector = "none"
    /\ detector' = "classifyDocument"
    /\ inputSize' = Len(ocrText)
    /\ output' = Returned(classifyDocument(ocrText))
    /\ DetectFrame

RunLayer1Detection ==
    /\ detector = "none"
    /\ detector' = "runLayer1Detection"
    /\ inputSize' = Len(ocrText) + Len(ocrWords)
    /\ output' = Returned(runLayer1Detection(ocrText, ocrWords, 0))
    /\ DetectFrame

GroupWordsIntoLines ==
    /\ detector = "none"
    /\ detector' = "groupWordsIntoLines"
    /\ inputSize' = Len(ocrWords)
    /\ output' = groupWordsIntoLines(ocrWords)
    /\ DetectFrame

GroupLinesIntoBlocks ==
    /\ detector = "none"
    /\ detector' = "groupLinesIntoBlocks"
    /\ inputSize' = Len(OcrLines)
    /\ output' = groupLinesIntoBlocks(OcrLines, 0)
    /\ DetectFrame

DetectKeyValuePairs ==
    /\ detector = "none"
    /\ detector' = "detectKeyValuePairs"
    /\ inputSize' = Len(OcrLines)
    /\ output' = Returned(detectKeyValuePairs(OcrLines, 0))
    /\ DetectFrame

DetectTableStructure ==
    /\ detector = "none"
    /\ detector' = "detectTableStructure"
    /\ inputSize' = Len(OcrLines)
    /\ output' = Returned(detectTableStructure(OcrLines))
    /\ DetectFrame

\* spatialEntities of the advanced worker
KeyValuePairsToEntities ==
    /\ detector = "none"
    /\ detector' = "keyValuePairsToEntities"
    /\ inputSize' = Len(OcrLines)
    /\ output' = Returned(keyValuePairsToEntities(detectKeyValuePairs(OcrLines, 0)))
    /\ DetectFrame

DetectNames ==
    /\ detector = "none"
    /\ detector' = "detectNames"
    /\ inputSize' = Len(ocrWords)
    /\ output' = Returned(detectNames(ocrWords))
    /\ DetectFrame

DetectAddresses ==
    /\ detector = "none"
    /\ detector' = "detectAddresses"
    /\ inputSize' = Len(ocrWords)
    /\ output' = Returned(detectAddresses(ocrWords))
    /\ DetectFrame

DetectMedical ==
    /\ detector = "none"
    /\ detector' = "detectMedical"
    /\ inputSize' = Len(ocrWords)
    /\ output' = Returned(detectMedical(ocrWords))
    /\ DetectFrame

DetectEmail ==
    /\ detector = "none"
    /\ detector' = "detectEmail"
    /\ inputSize' = Len(ocrWords)
    /\ output' = Returned(detectEmail(ocrWords))
    /\ DetectFrame

DetectDOB ==
    /\ detector = "none"
    /\ detector' = "detectDOB"
    /\ inputSize' = Len(ocrWords)
    /\ output' = Returned(detectDOB(ocrWords))
    /\ DetectFrame

DetectNamesHeuristic ==
    /\ detector = "none"
    /\ detector' = "detectNamesHeuristic"
    /\ inputSize' = Len(ocrWords)
    /\ output' = Returned(detectNamesHeuristic(ocrWords))
    /\ DetectFrame

\* runWordIdPipeline: past its guard it awaits the AI, which answers with a
\* list of items or fails; a failure rejects the pipeline's promise.
RunWordIdPipeline ==
    /\ detector = "none"
    /\ detector' = "runWordIdPipeline"
    /\ inputSize' = Len(ocrWords)
    /\ \E apiKey \in {"", "key"}, fails \in BOOLEAN,
          piiEntities \in SeqUpTo(GeminiItemPool, MaxPerSource) :
         output' = IF apiKey # "" /\ Len(ocrWords) # 0 /\ fails THEN Threw
                   ELSE Returned(runWordIdPipeline(ocrWords, apiKey, 0, piiEntities))
    /\ DetectFrame

\* callGeminiWithTokens on the AI's answer: the request fails or the items
\* are validated.
CallGeminiWithTokens ==
    /\ detector = "none"
    /\ detector' = "callGeminiWithTokens"
    /\ inputSize' = Len(geminiItems)
    /\ \E ok \in BOOLEAN :
         output' = IF ok THEN Returned(callGeminiWithTokens(geminiItems)) ELSE Threw
    /\ DetectFrame

\* calculateRedactionMasks on the validated items, as runWordIdPipeline
\* calls it
CalculateRedactionMasks ==
    /\ detector = "none"
    /\ detector' = "calculateRedactionMasks"
    /\ inputSize' = Len(geminiItems)
    /\ output' = Returned(calculateRedactionMasks(ocrWords, callGeminiWithTokens(geminiItems)))
    /\ DetectFrame

\* A faulty worker that runs every detector whatever the ruleset says.
FuseDetectionsUngated ==
    /\ detector = "none"
    /\ detector' = "fuse"
    /\ \E threshold \in ConfidenceThresholds :
         LET classification == classifyDocument(ocrText)
             spatialEntities == keyValuePairsToEntities(detectKeyValuePairs(OcrLines, 0))
             regexEntities == runLayer1Detection(ocrText, ocrWords, 0)
             nlpEntities == detectNamesHeuristic(ocrWords)
             config == [ documentType |-> classification.primaryType,
                         confidenceThreshold |-> threshold,
                         preferSpatialOverNLP |-> TRUE,
                         deduplicationOverlapThreshold |-> <<1, 2>> ]
         IN /\ inputSize' = Len(regexEntities) + Len(spatialEntities) + Len(nlpEntities)
            /\ output' = Returned(fuse(config, regexEntities, spatialEntities,
                                       nlpEntities, <<>>).entities)
                          @@ [ stages |-> [ spatial |-> spatialEntities,
                                            nlp |-> nlpEntities, table |-> TRUE ] ]
    /\ DetectFrame

\* Stages 1 to 5 of the advanced worker on the text and the words: the
\* detectors its ruleset enables, then FusionEngine.fuse.  The table columns
\* are computed and logged, nothing else reads them; stages records what the
\* handler ran: the spatial and heuristic lists it handed to fuse, and
\* whether it called detectTableStructure.
FuseDetections ==
    /\ detector = "none"
    /\ detector' = "fuse"
    /\ \E threshold \in ConfidenceThresholds :
         LET classification == classifyDocument(ocrText)
             ruleset == getRulesetForDocType(classification.primaryType)
             spatialEntities ==
                 IF ruleset.prioritizeSpatialContext
                 THEN keyValuePairsToEntities(detectKeyValuePairs(OcrLines, 0))
                 ELSE <<>>
             tableRan == ruleset.prioritizeSpatialContext /\ ruleset.enableTableDetection
             tableColumns == IF tableRan THEN detectTableStructure(OcrLines) ELSE <<>>
             regexEntities == runLayer1Detection(ocrText, ocrWords, 0)
             nlpEntities == IF ~ruleset.skipParagraphNER
                            THEN detectNamesHeuristic(ocrWords) ELSE <<>>
             config == [ documentType |-> classification.primaryType,
                         confidenceThreshold |-> threshold,
                         preferSpatialOverNLP |-> ruleset.prioritizeSpatialContext,
                         deduplicationOverlapThreshold |-> <<1, 2>> ]
         IN /\ inputSize' = Len(regexEntities) + Len(spatialEntities) + Len(nlpEntities)
            /\ output' = Returned(fuse(config, regexEntities, spatialEntities,
                                       nlpEntities, <<>>).entities)
                          @@ [ stages |-> [ spatial |-> spatialEntities,
                                            nlp |-> nlpEntities, table |-> tableRan ] ]
    /\ DetectFrame

SpecDetect ==
    DetectInit
    /\ [][ \/ ClassifyDocument \/ RunLayer1Detection
                   \/ GroupWordsIntoLines \/ GroupLinesIntoBlocks
                   \/ DetectKeyValuePairs \/ DetectTableStructure \/ KeyValuePairsToEntities
                   \/ DetectNames \/ DetectAddresses \/ DetectMedical \/ DetectEmail
                   \/ DetectDOB \/ DetectNamesHeuristic
                   \/ RunWordIdPipeline
                   \/ FuseDetections ]_vars

-----------------------------------------------------------------------------
(* The pattern detector on texts of identifiers: numbers that pass and     *)
(* fail the Verhoeff and Luhn checks, a number starting with 1, PANs with  *)
(* a valid and an invalid holder letter.  The words are none, the text's   *)
(* own tokens, or one wide word that is not in the text.                   *)

PatternInit ==
    /\ ocrText \in SeqUpTo({"234567890123", "234567890124", "123456789012",
                             "4111111111111111", "4111111111111112",
                             "ABCPE1234F", "ABCXE1234F", "9876543210"}, MaxTokens)
    /\ ocrWords \in { <<>>,
                       [i \in 1..Len(ocrText) |-> Word(ocrText[i], 60 * (i - 1), 40, 50, 10)],
                       << Word("John", 0, 0, 90, 20) >> }
    /\ detector = "none" /\ inputSize = 0 /\ geminiItems = <<>>
    /\ output = Returned(<<>>)
    /\ DedupIdle /\ FusionIdle /\ RetryIdle /\ PipeIdle

SpecPattern == PatternInit /\ [][RunLayer1Detection \/ FuseDetections]_vars

\* The entities of the output made from the token t
EmittedFor(t) == { k \in 1..Len(output.value) : output.value[k].value = <<t>> }

\* C13 (as stated): for a full text containing "234567890123" the pattern
\* detector emits exactly one entity for it, of type AADHAAR with confidence
\* 1.0, and nothing else when the text is that number alone.
C13_AadhaarFullConfidence ==
    (detector = "runLayer1Detection"
        /\ Cardinality({i \in 1..Len(ocrText) : ocrText[i] = "234567890123"}) = 1) =>
        /\ Cardinality(EmittedFor("234567890123")) = 1
        /\ \A k \in EmittedFor("234567890123") :
              output.value[k].type = "AADHAAR" /\ output.value[k].confidence = ONE
        /\ Len(ocrText) = 1 => Len(output.value) = 1

\* C13 (amended): for a full text containing "234567890123" the pattern
\* detector emits exactly one entity for it, of type AADHAAR, with the
\* reduced confidence 0.6: the number fails the Verhoeff check computed with
\* the tables.  The number "234567890124" passes it and gets confidence 1.0.
C13_AadhaarReducedConfidence ==
    detector = "runLayer1Detection" =>
        /\ Cardinality({i \in 1..Len(ocrText) : ocrText[i] = "234567890123"}) = 1 =>
              /\ Cardinality(EmittedFor("234567890123")) = 1
              /\ \A k \in EmittedFor("234567890123") :
                    output.value[k].type = "AADHAAR" /\ output.value[k].confidence = 60000
              /\ Len(ocrText) = 1 => Len(output.value) = 1
        /\ \A k \in EmittedFor("234567890124") :
              output.value[k].type = "AADHAAR" /\ output.value[k].confidence = ONE

\* C13 witness: the detector ran on the text "234567890123" and returned
\* one AADHAAR entity with confidence 0.6.
C13_Witness ==
    /\ detector = "runLayer1Detection"
    /\ ocrText = <<"234567890123">>
    /\ Len(output.value) = 1
    /\ output.value[1].type = "AADHAAR"
    /\ output.value[1].confidence = 60000

\* C14: every entity emitted for a checksum-valid Aadhaar, PAN or card match
\* has confidence 1.0; a checksum-invalid Aadhaar or PAN match is emitted
\* with a confidence in [0.5, 0.7]; a card match failing the Luhn check is
\* not emitted.
C14_ConfidencePolicy ==
    detector = "runLayer1Detection" =>
        \A i \in 1..Len(findAllRegexMatches(ocrText)) :
            LET match == findAllRegexMatches(ocrText)[i]
                valid == CASE match.type = "AADHAAR" -> verhoeffValidate(match.value)
                           [] match.type = "PAN" -> panValidate(match.value)
                           [] match.type = "CREDIT_CARD" -> luhnValidate(match.value)
                           [] OTHER -> TRUE
                emitted == EmittedFor(match.raw)
            IN CASE match.type = "PHONE" -> TRUE
                 [] valid -> /\ emitted # {}
                             /\ \A k \in emitted : output.value[k].confidence = ONE
                 [] match.type = "CREDIT_CARD" -> emitted = {}
                 [] OTHER -> /\ emitted # {}
                             /\ \A k \in emitted : /\ output.value[k].confidence >= 50000
                                                     /\ output.value[k].confidence <= 70000

\* C14 witness: a card number failing the Luhn check was emitted, with
\* confidence 0.5.
C14_Witness ==
    /\ detector = "runLayer1Detection"
    /\ ocrText = <<"4111111111111112">>
    /\ Len(output.value) = 1
    /\ output.value[1].type = "CREDIT_CARD"
    /\ output.value[1].confidence = 50000

\* What the pattern detector emits for the text and the words
Layer1Entities == runLayer1Detection(ocrText, ocrWords, 0)

\* The checksum-valid matches whose text no word of the page carries
DegenerateMatches ==
    { k \in 1..Len(Layer1Entities) :
        /\ Layer1Entities[k].type \in {"AADHAAR", "PAN", "CREDIT_CARD"}
        /\ Layer1Entities[k].confidence = ONE
        /\ \A i \in 1..Len(ocrWords) : <<ocrWords[i].text>> # Layer1Entities[k].value }

\* C19: a checksum-valid pattern match whose text range intersects no OCR
\* word is emitted by runLayer1Detection with the placeholder box on the
\* requested page, and it is in the fused entity set whatever else was
\* detected on the page.
C19_DegenerateMatchKept ==
    /\ detector = "runLayer1Detection" =>
          \A k \in DegenerateMatches : output.value[k].bbox = BBox(0, 0, 100, 20, 0)
    /\ detector = "fuse" =>
          \A k \in DegenerateMatches :
              \E j \in 1..Len(output.value) : output.value[j].id = Layer1Entities[k].id

\* C19 witness: a valid Aadhaar number and a valid PAN on a page without
\* words both got the placeholder box, and fusion kept the Aadhaar number
\* only.
C19_Witness ==
    /\ detector = "fuse"
    /\ ocrText = <<"234567890124", "ABCPE1234F">>
    /\ ocrWords = <<>>
    /\ DegenerateMatches = {1, 2}
    /\ Layer1Entities[1].bbox = Layer1Entities[2].bbox
    /\ Len(output.value) = 1
    /\ output.value[1].type = "AADHAAR"

-----------------------------------------------------------------------------
(* The detectors on word lists in any reading order: a key with two value  *)
(* words on one line, a name word on the next line to the left of them, an *)
(* address keyword and a PIN code.                                         *)

MaxLineWords == 3

LineInit ==
    /\ ocrText = <<>>
    /\ ocrWords \in SeqUpTo(
           { Word("Name:", 50, 100, 40, 12), Word("John", 95, 100, 35, 12),
             Word("Doe", 135, 100, 30, 12), Word("Smith", 10, 120, 40, 12),
             Word("Road", 60, 140, 24, 12), Word("560001", 10, 160, 36, 12) },
           MaxLineWords)
    /\ detector = "none" /\ inputSize = 0 /\ geminiItems = <<>>
    /\ output = Returned(<<>>)
    /\ DedupIdle /\ FusionIdle /\ RetryIdle /\ PipeIdle

SpecLine ==
    LineInit
    /\ [][ \/ ClassifyDocument \/ RunLayer1Detection
                   \/ GroupWordsIntoLines \/ GroupLinesIntoBlocks
                   \/ DetectKeyValuePairs \/ DetectTableStructure \/ KeyValuePairsToEntities
                   \/ DetectNames \/ DetectAddresses \/ DetectMedical \/ DetectEmail
                   \/ DetectDOB \/ DetectNamesHeuristic
                   \/ RunWordIdPipeline
                   \/ FuseDetections ]_vars

\* The word list is one line: a key word at the left and one or more value
\* words to its right, each close to the one before it.
KeyThenValues ==
    /\ Len(ocrWords) >= 2
    /\ \A i, j \in 1..Len(ocrWords) :
          /\ ocrWords[i].bbox.y = ocrWords[j].bbox.y
          /\ i # j => ocrWords[i].bbox.x # ocrWords[j].bbox.x
    /\ \E i \in 1..Len(ocrWords) :
          /\ matchKeyPattern(ocrWords[i].text) # NullKey
          /\ \A j \in 1..Len(ocrWords) : j # i =>
                /\ matchKeyPattern(ocrWords[j].text) = NullKey
                /\ ocrWords[j].text \notin {".", ",", ":", ";"}
                /\ ocrWords[j].bbox.x > ocrWords[i].bbox.x
    /\ \A i, j \in 1..Len(ocrWords) :
          ocrWords[j].bbox.x > ocrWords[i].bbox.x =>
              ocrWords[j].bbox.x - (ocrWords[i].bbox.x + ocrWords[i].bbox.w)
                  <= 2 * ocrWords[i].bbox.w

\* The k-th word of the list from the left
FromLeft(k) ==
    ocrWords[CHOOSE i \in 1..Len(ocrWords) :
                Cardinality({j \in 1..Len(ocrWords) :
                                ocrWords[j].bbox.x < ocrWords[i].bbox.x}) = k - 1]

EntityDetectors ==
    {"runLayer1Detection", "keyValuePairsToEntities", "detectNames", "detectAddresses",
     "detectMedical", "detectEmail", "detectDOB", "detectNamesHeuristic",
     "runWordIdPipeline", "fuse"}

\* C17: when every input word has w >= 0 and h >= 0, every entity a detector
\* emits has bbox.w >= 0 and bbox.h >= 0, for every position and reading
\* order of the words.
C17_NonNegativeBoxes ==
    (/\ detector \in EntityDetectors
     /\ ~output.threw
     /\ \A i \in 1..Len(ocrWords) : ocrWords[i].bbox.w >= 0 /\ ocrWords[i].bbox.h >= 0)
        => \A k \in 1..Len(output.value) :
              output.value[k].bbox.w >= 0 /\ output.value[k].bbox.h >= 0

\* C17 witness: "John" ends a line and "Smith" starts the next one further
\* left; detectNames joined them into one name of negative width.
C17_Witness ==
    /\ detector = "detectNames"
    /\ ocrWords = <<Word("John", 95, 100, 35, 12), Word("Smith", 10, 120, 40, 12)>>
    /\ Len(output.value) = 1
    /\ output.value[1].value = <<"John", "Smith">>
    /\ output.value[1].bbox.w = (10 + 40) - 95
    /\ output.value[1].bbox.w < 0

-----------------------------------------------------------------------------
(* The word-ID masks for answers of the AI that mix sound items, items     *)
(* naming words that do not exist, and items of the wrong structure.       *)

MaxItems == 2

MasksInit ==
    /\ ocrText = <<>>
    /\ ocrWords \in { SubSeq(FusionWords, 1, n) : n \in 0..Len(FusionWords) }
    /\ geminiItems \in SeqUpTo(
           GeminiItemPool \cup
             { [type |-> "NAME", value |-> "Jane"],
               [type |-> "NAME", value |-> "Jane", wordIds |-> {}],
               [value |-> "John", wordIds |-> {0}] },
           MaxItems)
    /\ detector = "none" /\ inputSize = 0
    /\ output = Returned(<<>>)
    /\ DedupIdle /\ FusionIdle /\ RetryIdle /\ PipeIdle

SpecMasks == MasksInit /\ [][CallGeminiWithTokens \/ CalculateRedactionMasks]_vars

\* The item has the structure of a PII entity.
WellFormed(item) ==
    DOMAIN item = {"type", "value", "wordIds"} /\ item.wordIds # {}

\* The words of the page the item's ids name
ResolvedWords(item) == { i \in 1..Len(ocrWords) : (i - 1) \in item.wordIds }

\* The items of the answer that give a mask, in the order of the answer
MaskedItems ==
    SelectSeq(geminiItems, LAMBDA item : WellFormed(item) /\ ResolvedWords(item) # {})

\* C18: of the AI's answer only the items of the wrong structure and the
\* entities none of whose word ids names a word are dropped; every other
\* entity yields exactly one mask, the union of the boxes of exactly the words
\* its ids name.
C18_OnlyOffendingDropped ==
    /\ detector = "callGeminiWithTokens" /\ ~output.threw =>
            output.value = SelectSeq(geminiItems, WellFormed)
    /\ detector = "calculateRedactionMasks" =>
        /\ ~output.threw
        /\ Len(output.value) = Len(MaskedItems)
        /\ \A k \in 1..Len(MaskedItems) :
              LET ws == ResolvedWords(MaskedItems[k])
                  c == output.value[k].coordinates
              IN /\ output.value[k].textValue = MaskedItems[k].value
                 /\ \A i \in ws :
                       /\ c.startX <= ocrWords[i].bbox.x
                       /\ c.startY <= ocrWords[i].bbox.y
                       /\ c.endX >= ocrWords[i].bbox.x + ocrWords[i].bbox.w
                       /\ c.endY >= ocrWords[i].bbox.y + ocrWords[i].bbox.h
                 /\ \E i \in ws : c.startX = ocrWords[i].bbox.x
                 /\ \E i \in ws : c.startY = ocrWords[i].bbox.y
                 /\ \E i \in ws : c.endX = ocrWords[i].bbox.x + ocrWords[i].bbox.w
                 /\ \E i \in ws : c.endY = ocrWords[i].bbox.y + ocrWords[i].bbox.h

\* C18 witness: the answer named a word that does not exist and then two
\* words of which the page has one; the first entity was dropped and the
\* second gave the mask of the one word.
C18_Witness ==
    /\ detector = "calculateRedactionMasks"
    /\ Len(ocrWords) = 1
    /\ geminiItems = << [type |-> "Person", value |-> "Jane", wordIds |-> {9}],
                        [type |-> "NAME", value |-> "John Doe", wordIds |-> {0, 1}] >>
    /\ Len(output.value) = 1
    /\ output.value[1].textValue = "John Doe"
    /\ output.value[1].coordinates =
          [startX |-> 0, startY |-> 0, endX |-> 20, endY |-> 10]

-----------------------------------------------------------------------------
(* The classifier on texts of keywords of several dictionaries *)

ClassifyInit ==
    /\ ocrText \in SeqUpTo({"Invoice", "tax", "income", "pan", "female", "dob",
                            "patient", "John"}, MaxTokens)
    /\ ocrWords = <<>>
    /\ detector = "none" /\ inputSize = 0 /\ geminiItems = <<>>
    /\ output = Returned(<<>>)
    /\ DedupIdle /\ FusionIdle /\ RetryIdle /\ PipeIdle

SpecClassify == ClassifyInit /\ [][ClassifyDocument]_vars

\* The score of the i-th candidate type for the text
ScoreOf(i) == scoreDocumentType(ocrText, KeywordsOf(CandidateOrder[i])).score

TotalScore ==
    ScoreOf(1) + ScoreOf(2) + ScoreOf(3) + ScoreOf(4) + ScoreOf(5) + ScoreOf(6) + ScoreOf(7)

\* C16: classifyDocument answers 'generic' with confidence 0 exactly when no
\* keyword of any of the seven types occurs in the text; otherwise it answers
\* the highest-scoring type, the earliest of the candidate order on a tie,
\* with confidence min(top score / sum of all scores, 0.95); the confidence
\* lies in [0, 0.95].
C16_Classification ==
    detector = "classifyDocument" =>
        LET c == output.value
            noKeyword == \A i \in 1..7 :
                scoreDocumentType(ocrText, KeywordsOf(CandidateOrder[i])).matched = {}
        IN /\ ~output.threw
           /\ (c.primaryType = "generic" /\ c.confidence[1] = 0) <=> noKeyword
           /\ ~noKeyword =>
                \E i \in 1..7 :
                    /\ c.primaryType = CandidateOrder[i]
                    /\ \A j \in 1..7 : ScoreOf(j) <= ScoreOf(i)
                    /\ \A j \in 1..(i - 1) : ScoreOf(j) < ScoreOf(i)
                    /\ IF ScoreOf(i) * 100 <= 95 * TotalScore
                       THEN c.confidence[1] * TotalScore = ScoreOf(i) * c.confidence[2]
                       ELSE c.confidence[1] * 100 = 95 * c.confidence[2]
           /\ c.confidence[2] > 0
           /\ c.confidence[1] >= 0
           /\ c.confidence[1] * 100 <= 95 * c.confidence[2]

\* C16 witness: "dob" is a keyword of the Aadhaar and the PAN card; the
\* earlier candidate won with half of the score.
C16_Witness ==
    /\ detector = "classifyDocument"
    /\ ocrText = <<"dob">>
    /\ ScoreOf(5) = 1 /\ ScoreOf(6) = 1 /\ TotalScore = 2
    /\ output.value.primaryType = "id_card_aadhaar"
    /\ output.value.confidence = <<1, 2>>

-----------------------------------------------------------------------------
(* Claims about empty input, checked under SpecDetect *)

LineDetectors ==
    {"groupLinesIntoBlocks", "detectKeyValuePairs", "detectTableStructure",
     "keyValuePairsToEntities"}

EmptyOutput == ~output.threw /\ output.value = <<>>

\* The box runLayer1Detection gives a match that overlaps no word
PlaceholderBox == BBox(0, 0, 100, 20, 0)

\* C10 (as stated): on empty input, zero words or an empty text, every
\* detector returns an empty list and does not throw; a detector that reads
\* lines or entity lists has empty input when those are empty; classifyDocument
\* on the empty text returns 'generic'.
C10_EmptyInputEmptyOutput ==
    CASE detector = "none" -> TRUE
      [] detector = "classifyDocument" ->
            Len(ocrText) = 0 => (~output.threw /\ output.value.primaryType = "generic")
      [] detector = "runLayer1Detection" ->
            (Len(ocrWords) = 0 \/ Len(ocrText) = 0) => EmptyOutput
      [] detector \in LineDetectors \cup {"fuse"} -> inputSize = 0 => EmptyOutput
      [] OTHER -> Len(ocrWords) = 0 => EmptyOutput

\* C10 (amended): a detector returns an empty list and does not throw when
\* the input it searches is empty: the text for runLayer1Detection, the words
\* for the word detectors, the lines or entity lists for the others; with
\* zero words and a text that has matches runLayer1Detection returns them,
\* each with the placeholder box.
C10_EmptySearchedInput ==
    CASE detector = "none" -> TRUE
      [] detector = "classifyDocument" ->
            Len(ocrText) = 0 => (~output.threw /\ output.value.primaryType = "generic")
      [] detector = "runLayer1Detection" ->
            /\ ~output.threw
            /\ Len(ocrText) = 0 => output.value = <<>>
            /\ Len(ocrWords) = 0 =>
                  /\ Len(output.value) = Len(findAllRegexMatches(ocrText))
                  /\ \A k \in 1..Len(output.value) : output.value[k].bbox = PlaceholderBox
      [] detector \in LineDetectors \cup {"fuse"} -> inputSize = 0 => EmptyOutput
      [] OTHER -> Len(ocrWords) = 0 => EmptyOutput

\* C10 witness: runLayer1Detection was called with words and the empty text
\* and returned the empty list.
C10_Witness ==
    /\ detector = "runLayer1Detection"
    /\ Len(ocrText) = 0 /\ Len(ocrWords) > 0
    /\ EmptyOutput


-----------------------------------------------------------------------------
(* Key-value detection on one text row: a key, a colon of its own, value   *)
(* words, a second key and a word a column away, in any reading order,     *)
(* with a word on a second row that overlaps the first; and rows of a key  *)
(* followed by fourteen to sixteen close value words.                      *)

ValuesInit ==
    /\ ocrText = <<>>
    /\ ocrWords \in LET ValueRows ==
                       SeqUpTo({ Word("Name:", 50, 100, 40, 12), Word(":", 91, 100, 3, 12),
                                 Word("John", 95, 100, 35, 12), Word("Doe", 135, 100, 30, 12),
                                 Word("Phone:", 170, 100, 45, 12),
                                 Word("Road", 400, 100, 24, 12),
                                 Word("560001", 50, 108, 36, 12) }, MaxLineWords)
                       RunawayLine(n) ==
                       [i \in 1..n |-> IF i = 1 THEN Word("Name:", 0, 100, 40, 12)
                                       ELSE Word("John", 45 * (i - 1), 100, 35, 12)]
                   IN ValueRows \cup {RunawayLine(n) : n \in 15..17}
    /\ detector = "none" /\ inputSize = 0 /\ geminiItems = <<>>
    /\ output = Returned(<<>>)
    /\ DedupIdle /\ FusionIdle /\ RetryIdle /\ PipeIdle

SpecValues ==
    ValuesInit
    /\ [][ \/ ClassifyDocument \/ RunLayer1Detection
                   \/ GroupWordsIntoLines \/ GroupLinesIntoBlocks
                   \/ DetectKeyValuePairs \/ DetectTableStructure \/ KeyValuePairsToEntities
                   \/ DetectNames \/ DetectAddresses \/ DetectMedical \/ DetectEmail
                   \/ DetectDOB \/ DetectNamesHeuristic
                   \/ RunWordIdPipeline
                   \/ FuseDetections ]_vars

\* The value words of a pair are words[from], words[from + 1], ... of a
\* line whose key is an earlier word of that line.
ValueOnLine(pair, line) ==
    \E i \in 1..Len(line.words) :
        /\ pair.key = << line.words[i] >>
        /\ \E from \in (i + 1)..Len(line.words) :
              /\ from + Len(pair.value) - 1 <= Len(line.words)
              /\ \A k \in 1..Len(pair.value) : pair.value[k] = line.words[from + k - 1]

\* C25: every pair returned by detectKeyValuePairs has a value of 1 to 15
\* words; they follow the key on its line, in the line's order; none of them
\* matches a key pattern or is standalone punctuation; and each value word
\* after the first starts no further than twice the previous value word's
\* width from that word's right edge.
C25_ValueWords ==
    detector = "detectKeyValuePairs" =>
        \A p \in 1..Len(output.value) :
            LET pair == output.value[p]
            IN /\ Len(pair.value) \in 1..15
               /\ \E l \in 1..Len(OcrLines) : ValueOnLine(pair, OcrLines[l])
               /\ \A k \in 1..Len(pair.value) :
                     /\ matchKeyPattern(pair.value[k].text) = NullKey
                     /\ pair.value[k].text \notin {".", ",", ":", ";"}
               /\ \A k \in 2..Len(pair.value) :
                     pair.value[k].bbox.x
                         - (pair.value[k - 1].bbox.x + pair.value[k - 1].bbox.w)
                       <= 2 * pair.value[k - 1].bbox.w

\* C25 witness: a key followed by sixteen close words gave one pair with the
\* first fifteen of them as its value.
C25_Witness ==
    /\ detector = "detectKeyValuePairs"
    /\ Len(ocrWords) = 17
    /\ Len(output.value) = 1
    /\ Len(output.value[1].value) = 15
    /\ output.value[1].value[15] = ocrWords[16]

\* The elements of the parts (part.words of a line, part.lines of a block)
\* in the order of the parts
RECURSIVE Flatten(_, _)
Flatten(parts, field) ==
    IF Len(parts) = 0 THEN <<>>
    ELSE parts[1][field] \o Flatten(Tail(parts), field)

\* Every element occurs in s as many times as in t
SameElements(s, t) ==
    /\ Len(s) = Len(t)
    /\ \A i \in 1..Len(t) :
          Cardinality({k \in 1..Len(s) : s[k] = t[i]})
              = Cardinality({k \in 1..Len(t) : t[k] = t[i]})

\* The lines of a non-empty word list are non-empty and hold every word
\* once; the blocks of its lines are non-empty and hold every line once.
GroupingIsPartition ==
    /\ (detector = "groupWordsIntoLines" /\ Len(ocrWords) > 0) =>
          /\ ~output.threw
          /\ Len(output.value) > 0
          /\ \A l \in 1..Len(output.value) : Len(output.value[l].words) > 0
          /\ SameElements(Flatten(output.value, "words"), ocrWords)
    /\ (detector = "groupLinesIntoBlocks" /\ Len(ocrWords) > 0) =>
          /\ ~output.threw
          /\ Len(output.value) > 0
          /\ \A b \in 1..Len(output.value) : Len(output.value[b].lines) > 0
          /\ SameElements(Flatten(output.value, "lines"), OcrLines)
          /\ SameElements(Flatten(Flatten(output.value, "lines"), "words"), ocrWords)

\* C30: for every non-empty word list groupWordsIntoLines returns non-empty
\* lines in which every input word occurs exactly once overall,
\* groupLinesIntoBlocks places every line in exactly one non-empty block, and
\* a call of either leaves the word list it works on as it was, in content
\* and in order.
C30_GroupingPartitions ==
    /\ []GroupingIsPartition
    /\ [][(GroupWordsIntoLines \/ GroupLinesIntoBlocks) => ocrWords' = ocrWords]_vars

\* C30 witness: three words in an order that is not the reading order, two
\* on one row and one on the overlapping row below, were grouped into two
\* lines, and the two lines into two blocks.
C30_Witness ==
    /\ detector = "groupLinesIntoBlocks"
    /\ ocrWords = << Word("560001", 50, 108, 36, 12), Word("John", 95, 100, 35, 12),
                     Word("Name:", 50, 100, 40, 12) >>
    /\ Len(OcrLines) = 2
    /\ OcrLines[1].words = << ocrWords[3], ocrWords[2] >>
    /\ Len(output.value) = 2
    /\ output.value[1].lines = << OcrLines[1] >>
    /\ output.value[2].lines = << OcrLines[2] >>


-----------------------------------------------------------------------------
(* The advanced worker on texts of an invoice, an identity card, a medical *)
(* report and no type at all, with a key, a first name and a last name on  *)
(* one row.                                                                *)

RulesetInit ==
    /\ ocrText \in SeqUpTo({"Invoice", "dob", "patient"}, MaxTokens)
    /\ ocrWords \in SeqUpTo({ Word("Name:", 0, 0, 30, 10), Word("John", 34, 0, 20, 10),
                              Word("Smith", 58, 0, 25, 10) }, MaxWords)
    /\ detector = "none" /\ inputSize = 0 /\ geminiItems = <<>>
    /\ output = Returned(<<>>)
    /\ DedupIdle /\ FusionIdle /\ RetryIdle /\ PipeIdle

SpecRuleset == RulesetInit /\ [][FuseDetections]_vars

\* C26: in the advanced worker, spatial (layer 3) entities are handed to
\* fuse, and occur in its result, only when the ruleset of the classified
\* type has prioritizeSpatialContext; heuristic (layer 2) entities only when
\* it has skipParagraphNER false; detectTableStructure is called only when it
\* has enableTableDetection; and the entities returned are the fusion of
\* the regex, spatial and heuristic lists, whether or not the table
\* detection ran.
C26_RulesetGates ==
    detector = "fuse" =>
        LET primaryType == classifyDocument(ocrText).primaryType
            ruleset == getRulesetForDocType(primaryType)
            config(threshold) ==
                [ documentType |-> primaryType,
                  confidenceThreshold |-> threshold,
                  preferSpatialOverNLP |-> ruleset.prioritizeSpatialContext,
                  deduplicationOverlapThreshold |-> <<1, 2>> ]
            returned == { output.value[k].layer : k \in 1..Len(output.value) }
        IN /\ (output.stages.spatial # <<>> \/ 3 \in returned)
                  => ruleset.prioritizeSpatialContext
           /\ (output.stages.nlp # <<>> \/ 2 \in returned)
                  => ~ruleset.skipParagraphNER
           /\ output.stages.table => ruleset.enableTableDetection
           /\ \E threshold \in ConfidenceThresholds :
                 output.value = fuse(config(threshold),
                                     runLayer1Detection(ocrText, ocrWords, 0),
                                     output.stages.spatial, output.stages.nlp,
                                     <<>>).entities

\* C26 witness: on an invoice with the words "Name:", "John", the worker ran
\* the table detection, handed the key-value entity to fuse and no heuristic
\* entity, although the heuristic detector finds a name in these words.
C26_Witness ==
    /\ detector = "fuse"
    /\ classifyDocument(ocrText).primaryType = "invoice"
    /\ Len(ocrWords) = 2 /\ ocrWords[1].text = "Name:" /\ ocrWords[2].text = "John"
    /\ output.stages.table
    /\ Len(output.stages.spatial) = 1 /\ output.stages.nlp = <<>>
    /\ detectNamesHeuristic(ocrWords) # <<>>
    /\ Len(output.value) = 1 /\ output.value[1].layer = 3


-----------------------------------------------------------------------------
(* FusionEngine.fuse as a function: Init draws a list of entities of any   *)
(* layer, with confidences 0, 0.4 and 1, on one box, or of the ML layer on *)
(* a box apart, and a threshold; FuseEntities hands them to fuse by source. *)

MaxFused == 2

FuseInit ==
    /\ entities \in
         LET FusePool == { Entity(0, "NAME", "ab", c, BBox(0, 0, 2, 1, 0), layer) :
                               c \in {0, 40000, ONE}, layer \in 0..5 }
                         \cup { Entity(0, "NAME", "cd", 0, BBox(10, 0, 2, 1, 0), 4) }
         IN UNION { { [i \in 1..n |-> [f[i] EXCEPT !.id = i]] : f \in [1..n -> FusePool] }
                    : n \in 0..MaxFused }
    /\ iouThreshold = <<1, 2>>
    /\ shuffled = entities
    /\ kept = <<>> /\ keptShuffled = <<>> /\ keptFinal = <<>>
    /\ dpc = "input"
    /\ confidenceThreshold \in {0, 50000, 60000}
    /\ pipeline = "off" /\ requiredFields = {} /\ geminiApiKey = ""
    /\ enableGemini = FALSE /\ documentType = "generic"
    /\ detected = [regex |-> <<>>, spatial |-> <<>>, nlp |-> <<>>]
    /\ fusedEntities = <<>> /\ advancedEntities = <<>> /\ geminiEntities = <<>>
    /\ result = <<>> /\ fpc = "off"
    /\ RetryIdle /\ PipeIdle /\ DetectIdle

\* new FusionEngine(config).fuse(regex, spatial, nlp, ml): the entities of
\* layers 0 and 1 are the regex list, those of layer 3 the spatial list,
\* those of layer 2 the heuristic list, all others the ML list.
FuseEntities ==
    /\ dpc = "input"
    /\ LET bySource(layers) == SelectSeq(entities, LAMBDA e : e.layer \in layers)
           config == [ documentType |-> documentType,
                       confidenceThreshold |-> confidenceThreshold,
                       preferSpatialOverNLP |-> FALSE,
                       deduplicationOverlapThreshold |-> iouThreshold ]
       IN output' = Returned(fuse(config, bySource({0, 1}), bySource({3}),
                                  bySource({2}), bySource({4, 5})))
    /\ detector' = "FusionEngine.fuse"
    /\ inputSize' = Len(entities)
    /\ dpc' = "done"
    /\ UNCHANGED <<entities, iouThreshold, shuffled, kept, keptShuffled, keptFinal>>
    /\ UNCHANGED <<ocrText, ocrWords, geminiItems>>
    /\ UNCHANGED <<fusionVars, retryVars, pipeVars>>

SpecFuse == FuseInit /\ [][FuseEntities]_vars

\* C29: with a confidence threshold of at most 0.5 the confidence filter of
\* fuse removes nothing, whatever the layers and the confidences in [0, 1] of
\* the input: every returned entity has a confidence of at least 0.5, and
\* stats.total, the number of returned entities, plus stats.deduplicated is
\* the number of input entities.
C29_FilterRemovesNothing ==
    (detector = "FusionEngine.fuse" /\ confidenceThreshold <= 50000) =>
        LET fusionResult == output.value
        IN /\ \A k \in 1..Len(fusionResult.entities) :
                 fusionResult.entities[k].confidence >= 50000
           /\ fusionResult.stats.total = Len(fusionResult.entities)
           /\ fusionResult.stats.total + fusionResult.stats.deduplicated = inputSize
           /\ inputSize = Len(entities)

\* C29 witness: at threshold 0.5, an entity of layer 5 with confidence 0 and
\* an entity of layer 4 with confidence 0 on the same box: one was removed as
\* a duplicate, the other returned with confidence 0.5.
C29_Witness ==
    /\ detector = "FusionEngine.fuse" /\ confidenceThreshold = 50000
    /\ Len(entities) = 2
    /\ entities[1].layer = 5 /\ entities[1].confidence = 0
    /\ entities[2].layer = 4 /\ entities[2].confidence = 0
    /\ output.value.stats.total = 1 /\ output.value.stats.deduplicated = 1
    /\ output.value.entities[1].confidence = 50000

====
